---------------------------- MODULE Spec2Model ----------------------------
(***************************************************************************)
(* A model of the moneytrack transaction extractor (src/lib/parser.ts)     *)
(* and of the application component that calls it and stores what it       *)
(* returns (src/proxy/api/gemini.js, src/lib/storage.ts).                  *)
(*                                                                         *)
(* Text is a sequence of characters.  An ASCII character is the string     *)
(* holding it; a character outside ASCII is the string "U+XXXX" of its     *)
(* code point (U+0111 is the Vietnamese d with stroke, and so on).  The    *)
(* regular expressions of the source are translated by hand into           *)
(* operators that follow the backtracking order of the JavaScript engine.  *)
(* Vietnamese labels and messages, which the code never inspects, are      *)
(* written without their diacritics.                                       *)
(*                                                                         *)
(* Numbers are exact decimals (a digit sequence and a power of ten); the   *)
(* IEEE-754 rounding of the JavaScript runtime is not modelled.            *)
(***************************************************************************)
EXTENDS Integers, Sequences, FiniteSets, TLC

VARIABLES rawInput, inputMode, language, fallbackCurrency, preferredType, clock, result,
          lastIndex, reparsed,
          user, transactions, accounts, settings, loading, recording, flow,
          normalizerCalls, alert, store, pending, llmConfig, history, call

\* the arguments, the instant and the outcome of the latest call of the
\* extractor, and the state of its patterns
parserVars == <<rawInput, inputMode, language, fallbackCurrency, preferredType, clock, result,
                lastIndex, reparsed>>

\* the state of the application component, the storage service, the
\* requests in flight, the record of who entered what, and the latest call
\* of a function of the sign-in library or of the proxy
appVars == <<user, transactions, accounts, settings, loading, recording, flow,
             normalizerCalls, alert, store, pending, llmConfig, history, call>>

vars == <<parserVars, appVars>>

(***************************************************************************)
(* Characters                                                              *)
(***************************************************************************)
Digits == {"0", "1", "2", "3", "4", "5", "6", "7", "8", "9"}

LowerLetters ==
    {"a", "b", "c", "d", "e", "f", "g", "h", "i", "j", "k", "l", "m",
     "n", "o", "p", "q", "r", "s", "t", "u", "v", "w", "x", "y", "z"}

UpperLetters ==
    {"A", "B", "C", "D", "E", "F", "G", "H", "I", "J", "K", "L", "M",
     "N", "O", "P", "Q", "R", "S", "T", "U", "V", "W", "X", "Y", "Z"}

\* The pairs (upper, lower) String.prototype.toLowerCase maps, for the
\* characters the model's texts use.
CasePairs ==
    { <<"A", "a">>, <<"B", "b">>, <<"C", "c">>, <<"D", "d">>, <<"E", "e">>,
      <<"F", "f">>, <<"G", "g">>, <<"H", "h">>, <<"I", "i">>, <<"J", "j">>,
      <<"K", "k">>, <<"L", "l">>, <<"M", "m">>, <<"N", "n">>, <<"O", "o">>,
      <<"P", "p">>, <<"Q", "q">>, <<"R", "r">>, <<"S", "s">>, <<"T", "t">>,
      <<"U", "u">>, <<"V", "v">>, <<"W", "w">>, <<"X", "x">>, <<"Y", "y">>,
      <<"Z", "z">>, <<"U+0110", "U+0111">>, <<"U+0102", "U+0103">> }

LowerOf == [u \in {p[1] : p \in CasePairs} |-> (CHOOSE p \in CasePairs : p[1] = u)[2]]

lowerChar(c) == IF c \in DOMAIN LowerOf THEN LowerOf[c] ELSE c

\* String.prototype.toLowerCase
toLowerCase(s) == [i \in 1..Len(s) |-> lowerChar(s[i])]

\* \d, \s and \w of a JavaScript regular expression without the u flag
IsDigit(c) == c \in Digits

IsSpace(c) == c \in {" "}

WordChars == Digits \cup LowerLetters \cup UpperLetters \cup {"_"}

IsWordChar(c) == c \in WordChars

\* The character at index i, or the empty string outside the text.
At(s, i) == IF i >= 1 /\ i <= Len(s) THEN s[i] ELSE ""

\* \b between the characters at i-1 and i
WordBoundary(s, i) == IsWordChar(At(s, i - 1)) # IsWordChar(At(s, i))

\* whether the n characters from index i on are all digits (\d{n})
AllDigits(s, i, n) == \A j \in i..(i + n - 1) : IsDigit(At(s, j))

\* whether word w stands in s at index i
HasAt(s, i, w) ==
    /\ i + Len(w) - 1 <= Len(s)
    /\ \A j \in 1..Len(w) : s[i + j - 1] = w[j]

\* String.prototype.includes / an unanchored literal in a regular expression
Contains(s, w) == \E i \in 1..(Len(s) - Len(w) + 1) : HasAt(s, i, w)

\* the length of the run of digits from index i on (\d+ or \d*, greedy)
RECURSIVE DigitsRun(_, _)
DigitsRun(s, i) == IF IsDigit(At(s, i)) THEN 1 + DigitsRun(s, i + 1) ELSE 0

\* the length of the run of white space from index i on (\s*, greedy)
RECURSIVE SpaceRun(_, _)
SpaceRun(s, i) == IF IsSpace(At(s, i)) THEN 1 + SpaceRun(s, i + 1) ELSE 0

(***************************************************************************)
(* The lexicons and the rule table                                         *)
(***************************************************************************)
incomeKeywords ==
    << <<"s", "a", "l", "a", "r", "y">>,
       <<"i", "n", "c", "o", "m", "e">>,
       <<"b", "o", "n", "u", "s">>,
       <<"f", "r", "e", "e", "l", "a", "n", "c", "e">>,
       <<"r", "e", "c", "e", "i", "v", "e", "d">>,
       <<"l", "U+01B0", "U+01A1", "n", "g">>,
       <<"t", "h", "u">>,
       <<"t", "h", "U+01B0", "U+1EDF", "n", "g">>,
       <<"U+0111", "U+01B0", "U+1EE3", "c", " ", "t", "r", "U+1EA3">>,
       <<"c", "h", "u", "y", "U+1EC3", "n", " ", "k", "h", "o", "U+1EA3", "n", " ", "v", "U+00E0", "o">> >>

expenseKeywords ==
    << <<"s", "p", "e", "n", "t">>,
       <<"p", "a", "y">>,
       <<"b", "o", "u", "g", "h", "t">>,
       <<"b", "i", "l", "l">>,
       <<"r", "e", "n", "t">>,
       <<"c", "a", "f", "e">>,
       <<"c", "o", "f", "f", "e", "e">>,
       <<"U+0103", "n">>,
       <<"m", "u", "a">>,
       <<"c", "h", "i">>,
       <<"t", "i", "U+1EC1", "n", " ", "n", "h", "U+00E0">>,
       <<"x", "U+0103", "n", "g">>,
       <<"g", "r", "a", "b">>,
       <<"U+0103", "n", " ", "t", "r", "U+01B0", "a">>,
       <<"a", "n", " ", "c", "o", "m">> >>

categoryRules ==
    << [ re |-> << <<"c", "o", "f", "f", "e", "e">>,
             <<"c", "a", "f", "e">>,
             <<"t", "r", "U+00E0">>,
             <<"t", "e", "a">>,
             <<"U+0103", "n">>,
             <<"c", "o", "m">>,
             <<"f", "o", "o", "d">>,
             <<"g", "r", "o", "c", "e", "r", "y">>,
             <<"s", "i", "U+00EA", "u", " ", "t", "h", "U+1ECB">>,
             <<"r", "e", "s", "t", "a", "u", "r", "a", "n", "t">>,
             <<"b", "U+00FA", "n">>,
             <<"p", "h", "U+1EDF">> >>,
         en |-> "Food & Drink", vi |-> "An uong" ],
       [ re |-> << <<"r", "e", "n", "t">>,
             <<"t", "i", "U+1EC1", "n", " ", "n", "h", "U+00E0">>,
             <<"n", "h", "U+00E0">>,
             <<"a", "p", "a", "r", "t", "m", "e", "n", "t">>,
             <<"h", "o", "s", "t", "e", "l">>,
             <<"m", "o", "r", "t", "g", "a", "g", "e">> >>,
         en |-> "Housing", vi |-> "Nha o" ],
       [ re |-> << <<"g", "r", "a", "b">>,
             <<"u", "b", "e", "r">>,
             <<"x", "U+0103", "n", "g">>,
             <<"b", "u", "s">>,
             <<"t", "a", "x", "i">>,
             <<"t", "r", "a", "n", "s", "p", "o", "r", "t">>,
             <<"p", "e", "t", "r", "o", "l">>,
             <<"f", "u", "e", "l">>,
             <<"v", "U+00E9">>,
             <<"p", "a", "r", "k", "i", "n", "g">> >>,
         en |-> "Transport", vi |-> "Di chuyen" ],
       [ re |-> << <<"s", "a", "l", "a", "r", "y">>,
             <<"l", "U+01B0", "U+01A1", "n", "g">>,
             <<"b", "o", "n", "u", "s">>,
             <<"t", "h", "U+01B0", "U+1EDF", "n", "g">>,
             <<"f", "r", "e", "e", "l", "a", "n", "c", "e">>,
             <<"p", "a", "y", "r", "o", "l", "l">>,
             <<"i", "n", "c", "o", "m", "e">> >>,
         en |-> "Salary", vi |-> "Thu nhap" ],
       [ re |-> << <<"b", "i", "l", "l">>,
             <<"i", "n", "t", "e", "r", "n", "e", "t">>,
             <<"U+0111", "i", "U+1EC7", "n">>,
             <<"n", "U+01B0", "U+1EDB", "c">>,
             <<"p", "h", "o", "n", "e">>,
             <<"w", "i", "f", "i">>,
             <<"e", "l", "e", "c", "t", "r", "i", "c">> >>,
         en |-> "Bills & Utilities", vi |-> "Hoa don" ],
       [ re |-> << <<"s", "h", "o", "p">>,
             <<"s", "h", "o", "p", "p", "i", "n", "g">>,
             <<"m", "a", "l", "l">>,
             <<"m", "u", "a", " ", "U+0111", "U+1ED3">>,
             <<"q", "u", "U+1EA7", "n", " ", "U+00E1", "o">>,
             <<"s", "h", "o", "p", "e", "e">>,
             <<"l", "a", "z", "a", "d", "a">> >>,
         en |-> "Shopping", vi |-> "Mua sam" ],
       [ re |-> << <<"d", "o", "c", "t", "o", "r">>,
             <<"h", "o", "s", "p", "i", "t", "a", "l">>,
             <<"m", "e", "d", "i", "c", "i", "n", "e">>,
             <<"p", "h", "a", "r", "m", "a", "c", "y">>,
             <<"t", "h", "u", "U+1ED1", "c">>,
             <<"k", "h", "U+00E1", "m">> >>,
         en |-> "Health", vi |-> "Suc khoe" ],
       [ re |-> << <<"m", "o", "v", "i", "e">>,
             <<"c", "i", "n", "e", "m", "a">>,
             <<"g", "a", "m", "e">>,
             <<"n", "e", "t", "f", "l", "i", "x">>,
             <<"s", "p", "o", "t", "i", "f", "y">>,
             <<"d", "u", " ", "l", "U+1ECB", "c", "h">>,
             <<"t", "r", "a", "v", "e", "l">>,
             <<"h", "o", "t", "e", "l">> >>,
         en |-> "Entertainment", vi |-> "Giai tri" ],
       [ re |-> << <<"t", "u", "i", "t", "i", "o", "n">>,
             <<"h", "U+1ECD", "c">>,
             <<"c", "o", "u", "r", "s", "e">>,
             <<"c", "l", "a", "s", "s">>,
             <<"b", "o", "o", "k">>,
             <<"s", "U+00E1", "c", "h">> >>,
         en |-> "Education", vi |-> "Giao duc" ] >>

(***************************************************************************)
(* Decimal numbers.  A number is a sequence d of decimal digits with no    *)
(* leading and no trailing zero and an exponent x: its value is            *)
(* 0.d[1]d[2]... times ten to the power Len(d) + x, that is the integer    *)
(* written d times 10^x.  Zero is the empty digit sequence.                *)
(***************************************************************************)
DigitChars == <<"0", "1", "2", "3", "4", "5", "6", "7", "8", "9">>

DigitVal(c) == (CHOOSE n \in 1..10 : DigitChars[n] = c) - 1

Zero == [d |-> <<>>, x |-> 0]

RECURSIVE LeadingZeros(_)
LeadingZeros(ds) ==
    IF ds # <<>> /\ Head(ds) = 0 THEN 1 + LeadingZeros(Tail(ds)) ELSE 0

RECURSIVE TrailingZeros(_)
TrailingZeros(ds) ==
    IF ds # <<>> /\ ds[Len(ds)] = 0
    THEN 1 + TrailingZeros(SubSeq(ds, 1, Len(ds) - 1))
    ELSE 0

\* the number written by the digits ds, times 10^x
Decimal(ds, x) ==
    LET a == SubSeq(ds, LeadingZeros(ds) + 1, Len(ds))
        t == TrailingZeros(a)
    IN  IF a = <<>> THEN Zero
        ELSE [d |-> SubSeq(a, 1, Len(a) - t), x |-> x + t]

RECURSIVE NatDigits(_)
NatDigits(n) == IF n = 0 THEN <<>> ELSE Append(NatDigits(n \div 10), n % 10)

\* the decimal of a natural number
Nat2Dec(n) == Decimal(NatDigits(n), 0)

IsZero(a) == a.d = <<>>

\* a < b, for numbers that are not negative
DecLess(a, b) ==
    IF IsZero(b) THEN FALSE
    ELSE IF IsZero(a) THEN TRUE
    ELSE IF Len(a.d) + a.x # Len(b.d) + b.x THEN Len(a.d) + a.x < Len(b.d) + b.x
    ELSE \E i \in 1..Len(b.d) :
            /\ \A j \in 1..(i - 1) : j <= Len(a.d) /\ a.d[j] = b.d[j]
            /\ i > Len(a.d) \/ a.d[i] < b.d[i]

RECURSIVE Log10(_)
Log10(n) == IF n < 10 THEN 0 ELSE 1 + Log10(n \div 10)

\* a * n, for the multipliers the code uses, which are powers of ten
Times(a, n) == IF IsZero(a) THEN a ELSE [a EXCEPT !.x = @ + Log10(n)]

\* Number(t) for a text t of digits, "." and ",": NaN (here isNaN) unless t
\* is digits with at most one "." among them and at least one digit.
Number(t) ==
    LET dots == {i \in 1..Len(t) : t[i] = "."}
        ok   == /\ \A i \in 1..Len(t) : IsDigit(t[i]) \/ t[i] = "."
                /\ Cardinality(dots) <= 1
                /\ \E i \in 1..Len(t) : IsDigit(t[i])
        dot  == IF dots = {} THEN Len(t) + 1 ELSE CHOOSE i \in dots : TRUE
        ds   == [i \in 1..(Len(t) - (IF dots = {} THEN 0 ELSE 1)) |->
                   DigitVal(IF i < dot THEN t[i] ELSE t[i + 1])]
    IN  IF ok THEN [isNaN |-> FALSE, val |-> Decimal(ds, dot - Len(t) - (IF dots = {} THEN 1 ELSE 0))]
        ELSE [isNaN |-> TRUE, val |-> Zero]

(***************************************************************************)
(* detectCurrency                                                          *)
(***************************************************************************)
USD == "USD"

VND == "VND"

usdCues == << <<"$">>, <<"u", "s", "d">>, <<"d", "o", "l", "l", "a", "r">> >>

\* the alternatives of the VND pattern that carry no \b
vndCues == << <<"v", "n", "d">>, <<"U+0111">>, <<"t", "r", "i", "U+1EC7", "u">>, <<"n", "g", "h", "U+00EC", "n">>, <<"n", "g", "a", "n">> >>

\* w\b somewhere in s, for a word w that ends in a word character
ContainsThenBoundary(s, w) ==
    \E i \in 1..(Len(s) - Len(w) + 1) :
        HasAt(s, i, w) /\ WordBoundary(s, i + Len(w))

ContainsAny(s, ws) == \E n \in 1..Len(ws) : Contains(s, ws[n])

\* detectCurrency with the two tests of parser.ts 48-49 in the other order
detectCurrency_VndFirst(text, fallback) ==
    LET lower == toLowerCase(text)
    IN  IF \/ ContainsAny(lower, vndCues)
           \/ ContainsThenBoundary(lower, <<"k">>)
           \/ ContainsThenBoundary(lower, <<"t", "r">>)
        THEN VND
        ELSE IF ContainsAny(lower, usdCues) THEN USD
        ELSE fallback

detectCurrency(text, fallback) ==
    LET lower == toLowerCase(text)
    IN  IF ContainsAny(lower, usdCues) THEN USD
        ELSE IF \/ ContainsAny(lower, vndCues)
                \/ ContainsThenBoundary(lower, <<"k">>)
                \/ ContainsThenBoundary(lower, <<"t", "r">>)
             THEN VND
        ELSE fallback


(***************************************************************************)
(* parseAmount: the date scrub                                             *)
(*                                                                         *)
(* A match operator gives the index of the last character of the match    *)
(* that starts at index i, or 0 when the pattern does not match there.     *)
(***************************************************************************)
\* /\b\d{4}-\d{2}-\d{2}\b/ at index i
isoDateMatch(s, i) ==
    IF /\ WordBoundary(s, i)
       /\ AllDigits(s, i, 4) /\ At(s, i + 4) = "-"
       /\ AllDigits(s, i + 5, 2) /\ At(s, i + 7) = "-"
       /\ AllDigits(s, i + 8, 2)
       /\ WordBoundary(s, i + 10)
    THEN i + 9 ELSE 0

\* The ways \d{1,2}\/\d{1,2}(?:\/\d{2,4})? can split, as <<digits of the
\* day, digits of the month, digits of the year or 0 for none>>, in the
\* order the backtracking engine tries them (each quantifier is greedy).
slashShapes ==
    << <<2, 2, 4>>, <<2, 2, 3>>, <<2, 2, 2>>, <<2, 2, 0>>,
       <<2, 1, 4>>, <<2, 1, 3>>, <<2, 1, 2>>, <<2, 1, 0>>,
       <<1, 2, 4>>, <<1, 2, 3>>, <<1, 2, 2>>, <<1, 2, 0>>,
       <<1, 1, 4>>, <<1, 1, 3>>, <<1, 1, 2>>, <<1, 1, 0>> >>

\* the length of shape sh
slashLen(sh) == sh[1] + 1 + sh[2] + (IF sh[3] = 0 THEN 0 ELSE 1 + sh[3])

\* whether \d{1,2}\/\d{1,2}(?:\/\d{2,4})? matches at index i with shape sh
slashFits(s, i, sh) ==
    /\ AllDigits(s, i, sh[1])
    /\ At(s, i + sh[1]) = "/"
    /\ AllDigits(s, i + sh[1] + 1, sh[2])
    /\ sh[3] # 0 => /\ At(s, i + sh[1] + 1 + sh[2]) = "/"
                    /\ AllDigits(s, i + sh[1] + sh[2] + 2, sh[3])

\* /\b\d{1,2}\/\d{1,2}(?:\/\d{2,4})?\b/ at index i
slashDateMatch(s, i) ==
    LET fits(n) == /\ slashFits(s, i, slashShapes[n])
                   /\ WordBoundary(s, i + slashLen(slashShapes[n]))
        ok == {n \in 1..Len(slashShapes) : fits(n)}
    IN  IF ~(WordBoundary(s, i) /\ IsDigit(At(s, i))) THEN 0
        ELSE IF ok = {} THEN 0
        ELSE i + slashLen(slashShapes[CHOOSE n \in ok : \A k \in ok : n <= k]) - 1

dayWords == << <<"n", "g", "U+00E0", "y">>, <<"d", "a", "y">> >>

\* /\b(?:ngày|day)\s+\d{1,2}\b/ at index i
dayPhraseMatch(s, i) ==
    LET fits(w, n) ==
            LET sp == SpaceRun(s, i + Len(w))
                p  == i + Len(w) + sp
            IN  /\ HasAt(s, i, w)
                /\ WordBoundary(s, i)
                /\ sp >= 1
                /\ AllDigits(s, p, n)
                /\ WordBoundary(s, p + n)
        end(w, n) == i + Len(w) + SpaceRun(s, i + Len(w)) + n - 1
    IN  IF fits(dayWords[1], 2) THEN end(dayWords[1], 2)
        ELSE IF fits(dayWords[1], 1) THEN end(dayWords[1], 1)
        ELSE IF fits(dayWords[2], 2) THEN end(dayWords[2], 2)
        ELSE IF fits(dayWords[2], 1) THEN end(dayWords[2], 1)
        ELSE 0

scrubMatch(kind, s, i) ==
    CASE kind = "iso"   -> isoDateMatch(s, i)
      [] kind = "slash" -> slashDateMatch(s, i)
      [] kind = "day"   -> dayPhraseMatch(s, i)

\* s.replace(/.../g, ' ') from index i on: every match, found from left to
\* right in s, becomes one space.
RECURSIVE replaceFrom(_, _, _)
RECURSIVE replaceMatch(_, _, _, _)
replaceFrom(kind, s, i) ==
    IF i > Len(s) THEN <<>> ELSE replaceMatch(kind, s, i, scrubMatch(kind, s, i))

\* the same at index i, where the pattern matches up to index e (0: not)
replaceMatch(kind, s, i, e) ==
    IF e > 0 THEN <<" ">> \o replaceFrom(kind, s, e + 1)
    ELSE <<s[i]>> \o replaceFrom(kind, s, i + 1)

replaceAll(kind, s) == replaceFrom(kind, s, 1)

\* parser.ts 56-59
scrub(lower) == replaceAll("day", replaceAll("slash", replaceAll("iso", lower)))


(***************************************************************************)
(* parseAmount: the token scan                                             *)
(***************************************************************************)
Null == [isNull |-> TRUE, val |-> Zero]

Some(v) == [isNull |-> FALSE, val |-> v]

\* unitMultiplier without the slang units of parser.ts 63-64
unitMultiplier_NoSlang(unit) ==
    IF unit = <<>> THEN 1
    ELSE IF unit = <<"k">> THEN 1000
    ELSE IF unit \in { <<"t", "r">>, <<"m">>, <<"m", "i", "l">> } THEN 1000000
    ELSE 1

unitMultiplier(unit) ==
    IF unit = <<>> THEN 1
    ELSE IF unit \in { <<"k">>, <<"x", "U+1ECB">> } THEN 1000
    ELSE IF unit \in { <<"t", "r">>, <<"c", "U+1EE7">>, <<"c", "u">>, <<"c", "h", "a", "i">>, <<"m">>, <<"m", "i", "l">> } THEN 1000000
    ELSE 1

IsSep(c) == c \in {".", ","}

\* [.,]\d{3} at index p
IsGroup(s, p) == IsSep(At(s, p)) /\ AllDigits(s, p + 1, 3)

\* the number of groups (?:[.,]\d{3})+ takes from index p on, greedy
RECURSIVE GroupRun(_, _)
GroupRun(s, p) == IF IsGroup(s, p) THEN 1 + GroupRun(s, p + 4) ELSE 0

\* the length (?:[.,]\d+)? takes at index q, greedy
DecimalPart(s, q) ==
    IF IsSep(At(s, q)) /\ IsDigit(At(s, q + 1)) THEN 1 + DigitsRun(s, q + 1) ELSE 0

\* whether compact is /^\d{1,3}([.,]\d{3})+([.,]\d+)?$/
IsThousands(compact) ==
    \E n \in 1..3 : \E g \in 1..(Len(compact) \div 4) :
        LET q == n + 1 + 4 * g
        IN  /\ AllDigits(compact, 1, n)
            /\ \A k \in 0..(g - 1) : IsGroup(compact, n + 1 + 4 * k)
            /\ \/ q = Len(compact) + 1
               \/ /\ IsSep(At(compact, q))
                  /\ q + 1 <= Len(compact)
                  /\ AllDigits(compact, q + 1, Len(compact) - q)

\* s with the first "," replaced by ".": String.prototype.replace(',', '.')
replaceFirstComma(s) ==
    LET commas == {i \in 1..Len(s) : s[i] = ","}
    IN  IF commas = {} THEN s
        ELSE [s EXCEPT ![CHOOSE i \in commas : \A j \in commas : i <= j] = "."]

\* Number.isNaN(value) ? null : value
nullIfNaN(value) == IF value.isNaN THEN Null ELSE Some(value.val)

\* parseNumberToken without the branch of parser.ts 73-77
parseNumberToken_DecimalOnly(numText) ==
    LET compact == SelectSeq(numText, LAMBDA c : ~IsSpace(c))
    IN  IF compact = <<>> THEN Null
        ELSE nullIfNaN(Number(replaceFirstComma(compact)))

parseNumberToken(numText) ==
    LET compact == SelectSeq(numText, LAMBDA c : ~IsSpace(c))
    IN  IF compact = <<>> THEN Null
        ELSE IF IsThousands(compact)
        THEN nullIfNaN(Number(SelectSeq(compact, LAMBDA c : ~IsSep(c))))
        ELSE nullIfNaN(Number(replaceFirstComma(compact)))

\* the alternatives of tokenRe's second group, in the order it tries them
unitAlternatives ==
    << <<"k">>, <<"t", "r">>, <<"m">>, <<"m", "i", "l">>, <<"x", "U+1ECB">>, <<"c", "u">>, <<"c", "U+1EE7">>, <<"c", "h", "a", "i">>,
       <<"v", "n", "d">>, <<"U+0111">>, <<"u", "s", "d">>, <<"$">> >>

\* tokenRe's first group at index i, which holds a digit: the index of its
\* last character.  The grouped alternative is tried first.
numberEnd(s, i) ==
    LET heads == {n \in 1..3 : AllDigits(s, i, n) /\ IsGroup(s, i + n)}
    IN  IF heads # {}
        THEN LET n == CHOOSE h \in heads : \A k \in heads : h >= k
                 q == i + n + 4 * GroupRun(s, i + n)
             IN  q + DecimalPart(s, q) - 1
        ELSE LET q == i + DigitsRun(s, i)
             IN  q + DecimalPart(s, q) - 1

\* tokenRe.exec at index i, which holds a digit: match[1], match[2] (the
\* empty sequence when the group did not take part) and the index of the
\* last character of the match.  unitAt is the second group at index u,
\* matchOf the match whose first group ends at index e, unitsFrom the match
\* once the first group is known to end at e.
unitAt(s, u) ==
    LET ok == {n \in 1..Len(unitAlternatives) : HasAt(s, u, unitAlternatives[n])}
    IN  IF ok = {} THEN <<>>
        ELSE unitAlternatives[CHOOSE n \in ok : \A k \in ok : n <= k]

matchOf(s, i, e, unit) ==
    [num |-> SubSeq(s, i, e), unit |-> unit, last |-> e + SpaceRun(s, e + 1) + Len(unit)]

unitsFrom(s, i, e) == matchOf(s, i, e, unitAt(s, e + 1 + SpaceRun(s, e + 1)))

tokenRe(s, i) == unitsFrom(s, i, numberEnd(s, i))

\* parser.ts 90-94 for parsedNum and the unit of its match: the candidate
\* pushed, if any
candidate(parsedNum, unit) ==
    IF parsedNum.isNull \/ IsZero(parsedNum.val) THEN <<>>
    ELSE << [amount  |-> Times(parsedNum.val, unitMultiplier(unit)),
             hasUnit |-> unit # <<>>] >>

pushed(match) == candidate(parseNumberToken(match.num), match.unit)

\* candidatesFrom with an if for the while of parser.ts 89: only the first
\* match of tokenRe is looked at
candidatesFrom_FirstOnly(s, i) ==
    LET at == {j \in i..Len(s) : IsDigit(s[j])}
    IN  IF at = {} THEN <<>>
        ELSE pushed(tokenRe(s, CHOOSE j \in at : \A k \in at : j <= k))

\* the loop of parser.ts 89-95 from index i on; afterMatch is one turn of
\* it, for the match tokenRe.exec returned
RECURSIVE candidatesFrom(_, _)
RECURSIVE afterMatch(_, _)
candidatesFrom(s, i) ==
    IF i > Len(s) THEN <<>>
    ELSE IF ~IsDigit(s[i]) THEN candidatesFrom(s, i + 1)
    ELSE afterMatch(s, tokenRe(s, i))

afterMatch(s, match) == pushed(match) \o candidatesFrom(s, match.last + 1)

\* cs.reduce((best, cur) => (cur.amount > best ? cur.amount : best), best)
RECURSIVE reduceMax(_, _)
reduceMax(cs, best) ==
    IF cs = <<>> THEN best
    ELSE reduceMax(Tail(cs), IF DecLess(best, Head(cs).amount) THEN Head(cs).amount ELSE best)

\* the cue words of parser.ts 103
cueWords == << <<"U+0103", "n">>, <<"c", "a", "f", "e">>, <<"g", "r", "a", "b">>, <<"c", "o", "m">>, <<"t", "r", "U+00E0">>, <<"t", "e", "a">>, <<"m", "u", "a">> >>

candidatesOf(raw) == candidatesFrom(scrub(toLowerCase(raw)), 1)

\* selectValue without the preference of parser.ts 100: the greatest of all
selectValue_MaxOfAll(candidates) == reduceMax(candidates, Zero)

\* parser.ts 100-101
selectValue(candidates) ==
    LET withUnits == SelectSeq(candidates, LAMBDA c : c.hasUnit)
    IN  reduceMax(IF Len(withUnits) > 0 THEN withUnits ELSE candidates, Zero)

\* heuristic without the currency test of parser.ts 103
heuristic_AnyCurrency(value, lower, currency) ==
    IF DecLess(value, Nat2Dec(1000)) /\ ContainsAny(lower, cueWords)
    THEN Times(value, 1000)
    ELSE value

\* parser.ts 103-107
heuristic(value, lower, currency) ==
    IF currency = VND /\ DecLess(value, Nat2Dec(1000)) /\ ContainsAny(lower, cueWords)
    THEN Times(value, 1000)
    ELSE value

\* parser.ts 97-107, for the candidates of the scan
amountOf(candidates, lower, currency) ==
    IF Len(candidates) = 0 THEN Null
    ELSE Some(heuristic(selectValue(candidates), lower, currency))

parseAmount(raw, currency) == amountOf(candidatesOf(raw), toLowerCase(raw), currency)


(***************************************************************************)
(* detectType and detectCategory                                           *)
(***************************************************************************)
\* an optional argument that was not supplied
Undefined == "undefined"

\* detectType with the keywords consulted before the preferred type
detectType_KeywordsFirst(text, preferred) ==
    LET lower == toLowerCase(text)
    IN  IF ContainsAny(lower, incomeKeywords) THEN "income"
        ELSE IF ContainsAny(lower, expenseKeywords) THEN "expense"
        ELSE IF preferred # Undefined THEN preferred
        ELSE "expense"

\* detectType with the expense lexicon consulted before the income lexicon
detectType_ExpenseFirst(text, preferred) ==
    LET lower == toLowerCase(text)
    IN  IF preferred # Undefined THEN preferred
        ELSE IF ContainsAny(lower, expenseKeywords) THEN "expense"
        ELSE IF ContainsAny(lower, incomeKeywords) THEN "income"
        ELSE "expense"

detectType(text, preferred) ==
    LET lower == toLowerCase(text)
    IN  IF preferred # Undefined THEN preferred
        ELSE IF ContainsAny(lower, incomeKeywords) THEN "income"
        ELSE IF ContainsAny(lower, expenseKeywords) THEN "expense"
        ELSE "expense"

\* the g flag of the patterns of categoryRules, with all of them global
ruleIsGlobal_All(n) == TRUE

\* the g flag of the pattern of rule n: the patterns carry the i flag only
ruleIsGlobal(n) == FALSE

\* the alternative of ws that matches in s at index i, and the lastIndex
\* the match leaves (the number of characters up to its end)
matchAt(ws, s, i) ==
    i + Len(ws[CHOOSE k \in 1..Len(ws) :
                  /\ HasAt(s, i, ws[k])
                  /\ \A j \in 1..(k - 1) : ~HasAt(s, i, ws[j])]) - 1

\* RegExp.prototype.test of a global pattern with alternatives ws whose
\* lastIndex is from: the search starts there, and leaves lastIndex at the
\* end of the match, or at 0 when there is none
globalTest(ws, s, from) ==
    LET at == {i \in (from + 1)..Len(s) : \E k \in 1..Len(ws) : HasAt(s, i, ws[k])}
    IN  IF at = {} THEN [matched |-> FALSE, lastIndex |-> 0]
        ELSE [matched   |-> TRUE,
              lastIndex |-> matchAt(ws, s, CHOOSE i \in at : \A j \in at : i <= j)]

\* r.re.test(text) for rule n, whose lastIndex is from, on a text whose
\* lowercase form is lower (the patterns carry the i flag and are written
\* in lowercase): a pattern that is not global leaves lastIndex alone
testRule(n, lower, from) ==
    IF ruleIsGlobal(n) THEN globalTest(categoryRules[n].re, lower, from)
    ELSE [matched |-> ContainsAny(lower, categoryRules[n].re), lastIndex |-> from]

\* whether rule n's pattern matches, in the state its lastIndex is in
ruleMatches(n, lower) == testRule(n, lower, lastIndex[n]).matched

\* findRule with the last matching rule for the first
findRule_Last(n, lower) ==
    LET hits == {k \in n..Len(categoryRules) : ruleMatches(k, lower)}
    IN  IF hits = {} THEN 0 ELSE CHOOSE k \in hits : \A j \in hits : k >= j

\* Array.prototype.find over categoryRules, from rule n on: the index of
\* the first rule whose pattern matches, or 0
RECURSIVE findRule(_, _)
findRule(n, lower) ==
    IF n > Len(categoryRules) THEN 0
    ELSE IF ruleMatches(n, lower) THEN n
    ELSE findRule(n + 1, lower)

\* detectCategory with the two defaults of parser.ts 121-122 exchanged
detectCategory_DefaultsSwapped(text, lang, type) ==
    LET found == findRule(1, toLowerCase(text))
    IN  IF found # 0
        THEN (IF lang = "vi" THEN categoryRules[found].vi ELSE categoryRules[found].en)
        ELSE IF type = "income"
             THEN (IF lang = "vi" THEN "Chi khac" ELSE "Other Expense")
        ELSE (IF lang = "vi" THEN "Thu khac" ELSE "Other Income")

\* the lastIndex of the patterns after categoryRules.find, which tested the
\* rules up to rule found (all of them when found is 0)
lastIndexAfter(lower, found) ==
    [n \in 1..Len(categoryRules) |->
        IF found = 0 \/ n <= found THEN testRule(n, lower, lastIndex[n]).lastIndex
        ELSE lastIndex[n]]

detectCategory(text, lang, type) ==
    LET found == findRule(1, toLowerCase(text))
    IN  IF found # 0
        THEN (IF lang = "vi" THEN categoryRules[found].vi ELSE categoryRules[found].en)
        ELSE IF type = "income"
             THEN (IF lang = "vi" THEN "Thu khac" ELSE "Other Income")
        ELSE (IF lang = "vi" THEN "Chi khac" ELSE "Other Expense")

(***************************************************************************)
(* normalizeDate.  The clock is the instant of the call: its UTC calendar  *)
(* date and hour, and the device's offset from UTC in hours (a zone with   *)
(* a fixed offset).  A day number counts days from 1970-01-01.             *)
(***************************************************************************)
daysFromCivil(y, m, d) ==
    LET yy  == IF m <= 2 THEN y - 1 ELSE y
        era == yy \div 400
        yoe == yy - era * 400
        doy == (153 * (IF m > 2 THEN m - 3 ELSE m + 9) + 2) \div 5 + d - 1
        doe == yoe * 365 + yoe \div 4 - yoe \div 100 + doy
    IN  era * 146097 + doe - 719468

civilFromDays(z) ==
    LET zz  == z + 719468
        era == zz \div 146097
        doe == zz - era * 146097
        yoe == (doe - doe \div 1460 + doe \div 36524 - doe \div 146096) \div 365
        doy == doe - (365 * yoe + yoe \div 4 - yoe \div 100)
        mp  == (5 * doy + 2) \div 153
        d   == doy - (153 * mp + 2) \div 5 + 1
        m   == IF mp < 10 THEN mp + 3 ELSE mp - 9
    IN  [y |-> yoe + era * 400 + (IF m <= 2 THEN 1 ELSE 0), m |-> m, d |-> d]

\* the n low decimal digits of k, as characters
RECURSIVE padDigits(_, _)
padDigits(k, n) ==
    IF n = 0 THEN <<>> ELSE Append(padDigits(k \div 10, n - 1), DigitChars[(k % 10) + 1])

\* Date.prototype.toISOString().slice(0, 10) of an instant whose UTC date is
\* day number z: years beyond 9999 are written with a sign and six digits.
isoSlice(z) ==
    LET c == civilFromDays(z)
    IN  IF c.y <= 9999
        THEN padDigits(c.y, 4) \o <<"-">> \o padDigits(c.m, 2) \o <<"-">> \o padDigits(c.d, 2)
        ELSE <<"+">> \o padDigits(c.y, 6) \o <<"-">> \o padDigits(c.m, 2)

\* the digits of text t as a natural number: Number(t)
RECURSIVE digitsToNat(_)
digitsToNat(t) ==
    IF t = <<>> THEN 0
    ELSE 10 * digitsToNat(SubSeq(t, 1, Len(t) - 1)) + DigitVal(t[Len(t)])

\* the UTC day number of the now's instant
utcDay(now) == daysFromCivil(now.utc[1], now.utc[2], now.utc[3])

\* Date.prototype.getFullYear: the year of the local date
getFullYear(now) ==
    civilFromDays(utcDay(now) + ((now.hour + now.offset) \div 24)).y

\* new Date(year, monthIndex, day).toISOString().slice(0, 10): local
\* midnight of the date, which months and days out of range roll over, read
\* as a UTC date.  Years 0 to 99 mean 1900 to 1999.
localMidnightIso(year, monthIndex, day, now) ==
    LET y      == IF year <= 99 THEN 1900 + year ELSE year
        months == y * 12 + monthIndex
        z      == daysFromCivil(months \div 12, (months % 12) + 1, 1) + day - 1
    IN  isoSlice(IF now.offset > 0 THEN z - 1 ELSE z)

yesterdayWords == << <<"y", "e", "s", "t", "e", "r", "d", "a", "y">>, <<"h", "U+00F4", "m", " ", "q", "u", "a">>, <<"h", "o", "m", " ", "q", "u", "a">> >>

todayWords == << <<"t", "o", "d", "a", "y">>, <<"h", "U+00F4", "m", " ", "n", "a", "y">>, <<"h", "o", "m", " ", "n", "a", "y">> >>

\* /(\d{4}-\d{2}-\d{2})/ at index i
isoFits(s, i) ==
    /\ AllDigits(s, i, 4) /\ At(s, i + 4) = "-"
    /\ AllDigits(s, i + 5, 2) /\ At(s, i + 7) = "-"
    /\ AllDigits(s, i + 8, 2)

normalizeDate(text, now) ==
    LET lower  == toLowerCase(text)
        isoAt  == {i \in 1..Len(text) : isoFits(text, i)}
        slashAt == {i \in 1..Len(text) :
                      \E n \in 1..Len(slashShapes) : slashFits(text, i, slashShapes[n])}
    IN  IF ContainsAny(lower, yesterdayWords) THEN isoSlice(utcDay(now) - 1)
        ELSE IF ContainsAny(lower, todayWords) THEN isoSlice(utcDay(now))
        ELSE IF isoAt # {}
             THEN LET i == CHOOSE p \in isoAt : \A q \in isoAt : p <= q
                  IN  SubSeq(text, i, i + 9)
        ELSE IF slashAt # {}
             THEN LET i  == CHOOSE p \in slashAt : \A q \in slashAt : p <= q
                      ok == {n \in 1..Len(slashShapes) : slashFits(text, i, slashShapes[n])}
                      sh == slashShapes[CHOOSE n \in ok : \A k \in ok : n <= k]
                      day   == digitsToNat(SubSeq(text, i, i + sh[1] - 1))
                      month == digitsToNat(SubSeq(text, i + sh[1] + 1, i + sh[1] + sh[2]))
                      yText == SubSeq(text, i + sh[1] + sh[2] + 2, i + sh[1] + sh[2] + 1 + sh[3])
                      year  == IF sh[3] = 0 THEN getFullYear(now)
                               ELSE IF sh[3] = 2 THEN 2000 + digitsToNat(yText)
                               ELSE digitsToNat(yText)
                  IN  localMidnightIso(year, month - 1, day, now)
        ELSE isoSlice(utcDay(now))

(***************************************************************************)
(* parseTransactionInput                                                   *)
(***************************************************************************)
\* noAmountMessage without the language test of parser.ts 160
noAmountMessage_AlwaysEnglish(lang) == "Could not find a valid amount."

noAmountMessage(lang) ==
    IF lang = "vi" THEN "Khong tim thay so tien hop le."
    ELSE "Could not find a valid amount."

\* parseTransactionInput without the test of parser.ts 159 (recordOf is
\* the record it returns)
recordOf(raw, mode, lang, now, currency, type) ==
    [kind      |-> "ok",
     type      |-> type,
     amount    |-> parseAmount(raw, currency).val,
     currency  |-> currency,
     category  |-> detectCategory(raw, lang, type),
     merchant  |-> Undefined,
     date      |-> normalizeDate(raw, now),
     note      |-> raw,
     inputMode |-> mode,
     rawInput  |-> raw]

parseTransactionInput_NoAmountCheck(raw, mode, lang, fallback, preferred, now) ==
    recordOf(raw, mode, lang, now, detectCurrency(raw, fallback), detectType(raw, preferred))

\* transactionOf with the white space taken out of the note
transactionOf_CompactNote(raw, mode, lang, now, currency, amount, type) ==
    IF amount.isNull \/ IsZero(amount.val)
    THEN [kind |-> "error", message |-> noAmountMessage(lang)]
    ELSE [kind      |-> "ok",
          type      |-> type,
          amount    |-> amount.val,
          currency  |-> currency,
          category  |-> detectCategory(raw, lang, type),
          merchant  |-> Undefined,
          date      |-> normalizeDate(raw, now),
          note      |-> SelectSeq(raw, LAMBDA c : ~IsSpace(c)),
          inputMode |-> mode,
          rawInput  |-> raw]

\* parser.ts 159-176, for the currency, amount and type detected
transactionOf(raw, mode, lang, now, currency, amount, type) ==
    IF amount.isNull \/ IsZero(amount.val)
    THEN [kind |-> "error", message |-> noAmountMessage(lang)]
    ELSE [kind      |-> "ok",
          type      |-> type,
          amount    |-> amount.val,
          currency  |-> currency,
          category  |-> detectCategory(raw, lang, type),
          merchant  |-> Undefined,
          date      |-> normalizeDate(raw, now),
          note      |-> raw,
          inputMode |-> mode,
          rawInput  |-> raw]

\* parser.ts 157-158 for the currency detected
amountIn(raw, mode, lang, preferred, now, currency) ==
    transactionOf(raw, mode, lang, now, currency,
                  parseAmount(raw, currency), detectType(raw, preferred))

parseTransactionInput(raw, mode, lang, fallback, preferred, now) ==
    amountIn(raw, mode, lang, preferred, now, detectCurrency(raw, fallback))


(***************************************************************************)
(* The inputs.  A text is a concatenation of a few fragments; each         *)
(* specification draws its texts from the fragments of one subject.        *)
(***************************************************************************)
InputModes == {"text", "voice", "image", "manual"}

Languages == {"en", "vi"}

Currencies == {USD, VND}

PreferredTypes == {"income", "expense", Undefined}

\* a device in Hanoi (UTC+7) at 10:00 on 15 March 2025
HanoiMorning == [utc |-> <<2025, 3, 15>>, hour |-> 3, offset |-> 7]

\* the texts made of at most n of the fragments frags
RECURSIVE TextsOf(_, _)
TextsOf(frags, n) ==
    IF n = 0 THEN {<<>>}
    ELSE LET shorter == TextsOf(frags, n - 1)
         IN  shorter \cup {t \o f : t \in shorter, f \in frags}

\* amounts, markers, a cue word and a day phrase
MaxFrags == 3

Fragments ==
    { <<"4">>, <<"0">>, <<"2", "5", "0">>, <<"$">>, <<" ">>,
      <<"c", "a", "f", "e">>, <<"d", "a", "y", " ">> }

\* a number with its context, followed by a unit or currency marker
MaxUnitFrags == 2

UnitFragments ==
    { <<"c", "a", "f", "e", " ", "4", "5">>, <<"l", "u", "n", "c", "h", " ", "8", " ">>, <<"l", "U+01B0", "U+01A1", "n", "g", " ", "2", "0">>,
      <<"k">>, <<"x", "U+1ECB">>, <<"t", "r">>, <<"c", "U+1EE7">>, <<"c", "u">>, <<"c", "h", "a", "i">>, <<"m">>, <<"m", "i", "l">>,
      <<"v", "n", "d">>, <<"U+0111">>, <<"u", "s", "d">>, <<"$">> }

\* digits, grouped thousands and decimal parts
MaxNumFrags == 3

NumFragments ==
    { <<"8">>, <<"1", "2">>, <<"0">>, <<".", "0", "0", "0">>, <<",", "0", "0", "0">>, <<".", "5">>, <<",", "5">>, <<" ">> }

\* dates, a day phrase, an amount and a letter
MaxDateFrags == 3

DateFragments ==
    { <<"2", "0", "2", "4", "-", "0", "1", "-", "1", "5">>, <<"1", "5", "/", "0", "3">>, <<"/", "2", "5">>, <<"d", "a", "y", " ">>, <<"n", "g", "U+00E0", "y", " ">>, <<"4", "5">>, <<"T">>, <<" ">> }

\* the currency cues, a space and a letter, which follow the amount "4"
MaxCueFrags == 2

CueFragments ==
    { <<"$">>, <<"u", "s", "d">>, <<"U", "S", "D">>, <<"d", "o", "l", "l", "a", "r">>, <<"v", "n", "d">>, <<"U+0111">>, <<"k">>, <<"t", "r">>,
      <<"t", "r", "i", "U+1EC7", "u">>, <<"n", "g", "h", "U+00EC", "n">>, <<"n", "g", "a", "n">>, <<" ">>, <<"x">> }

CueTexts == {<<"4">> \o t : t \in TextsOf(CueFragments, MaxCueFrags)}

\* an amount and keywords of both types
MaxTypeFrags == 3

TypeFragments ==
    { <<"4">>, <<"c", "a", "f", "e", " ">>, <<"m", "u", "a", " ">>, <<"r", "e", "n", "t", " ">>,
      <<"t", "h", "u", " ">>, <<"b", "o", "n", "u", "s", " ">>, <<"s", "a", "l", "a", "r", "y", " ">>,
      <<"T", "h", "u", " ">> }

(***************************************************************************)
(* The application (src/proxy/api/gemini.js) that calls the extractor: its *)
(* component state, the storage service and the requests in flight.  The   *)
(* theme and currency chips, the account handlers and the deletion of a    *)
(* transaction or of an account are not modelled.                          *)
(***************************************************************************)
Users == {"A", "B"}

NoUser == "null"

\* what the storage service holds under a key: nothing, or the data saved
Absent == [present |-> FALSE]

Stored(data) == [present |-> TRUE, data |-> data]

\* storage.ts 8-13: the identifier of the default account
defaultAccount == "acc-cash"

\* storage.ts 15-21
defaultSettings ==
    [language |-> "vi", defaultCurrency |-> VND, theme |-> "dark",
     onboardingCompleted |-> FALSE, defaultAccountId |-> defaultAccount]

\* gemini.js 227-232: the settings of a component just constructed
initialSettings ==
    [language |-> "vi", defaultCurrency |-> VND, theme |-> "dark",
     onboardingCompleted |-> FALSE, defaultAccountId |-> Undefined]

\* no asynchronous entry handler is suspended
NoFlow == [name |-> "idle"]

NoAlert == "none"

\* nothing stored under any user id
EmptyStore ==
    [u \in Users |-> [transactions |-> Absent, accounts |-> Absent, settings |-> Absent,
                      profile |-> FALSE]]

\* the record of what happened: who was signed in when each identifier was
\* issued, who pressed the button of the onboarding screen, how many times
\* somebody signed in, how many times startRecording was called, how many
\* accounts were added and how many times the delete of the user account
\* was confirmed
NoHistory ==
    [owner |-> <<>>, onboarded |-> {}, logins |-> 0, recordings |-> 0, added |-> 0,
     deletes |-> 0]

\* no function of the sign-in library or of the proxy has been called
NoCall == [fn |-> "none"]

\* gemini.js 216-261: the component as constructed, before its first effect
ComponentConstructed ==
    /\ user = NoUser
    /\ transactions = <<>>
    /\ accounts = <<>>
    /\ settings = initialSettings
    /\ loading = FALSE
    /\ recording = FALSE
    /\ flow = NoFlow
    /\ normalizerCalls = <<>>
    /\ alert = NoAlert
    /\ store = EmptyStore
    /\ pending = <<>>
    /\ history = NoHistory
    /\ call = NoCall

\* the component where the extractor alone is exercised
AppConstructed ==
    /\ ComponentConstructed
    /\ llmConfig = FALSE

NoResult == [kind |-> "none"]

\* before the call, with a text among texts and an input mode among modes
InitOver(texts, modes) ==
    /\ rawInput \in texts
    /\ inputMode \in modes
    /\ language \in Languages
    /\ fallbackCurrency \in Currencies
    /\ preferredType \in PreferredTypes
    /\ clock = HanoiMorning
    /\ result = NoResult
    /\ lastIndex = [n \in 1..Len(categoryRules) |-> 0]
    /\ reparsed = NoResult
    /\ AppConstructed

Init == InitOver(TextsOf(Fragments, MaxFrags), InputModes)

InitUnits == InitOver(TextsOf(UnitFragments, MaxUnitFrags), {"text"})

InitNumbers == InitOver(TextsOf(NumFragments, MaxNumFrags), {"text"})

InitDates == InitOver(TextsOf(DateFragments, MaxDateFrags), {"text"})

InitCues == InitOver(CueTexts, {"text"})

InitTypes == InitOver(TextsOf(TypeFragments, MaxTypeFrags), {"text"})

\* an amount, cues of five rules (one in capitals) and a word of no rule
MaxCatFrags == 3

CatFragments ==
    { <<"4">>, <<"c", "a", "f", "e", " ">>, <<"g", "r", "a", "b", " ">>, <<"r", "e", "n", "t", " ">>, <<"b", "o", "n", "u", "s", " ">>, <<"b", "i", "l", "l", " ">>, <<"U+0102", "n", " ">>, <<"x", " ">> }

\* numbers followed by words that begin with the letters of a unit, a bare
\* number and a number with the unit k
MaxWordFrags == 3

WordFragments ==
    { <<"4", " ", "m", "o", "n", "t", "h", "s", " ">>, <<"5", " ", "c", "h", "a", "i", "r", "s", " ">>, <<"3", " ", "c", "u", "p", "s", " ">>, <<"2", " ", "t", "r", "i", "p", "s", " ">>, <<"2", " ", "k", "g", " ">>, <<"7", " ">>, <<"9", " ", "k", " ">> }

InitWords == InitOver(TextsOf(WordFragments, MaxWordFrags), {"text"})

InitCategories == InitOver(TextsOf(CatFragments, MaxCatFrags), {"text"})

\* devices at four instants: Hanoi late at night (the local date is one day
\* ahead of the UTC date), the Pacific coast on New Year's Eve (the local
\* year is one behind the UTC year) and Greenwich on the day after a leap
\* day, besides HanoiMorning
HanoiNight == [utc |-> <<2025, 3, 15>>, hour |-> 20, offset |-> 7]

PacificNewYearsEve == [utc |-> <<2025, 1, 1>>, hour |-> 2, offset |-> -8]

GreenwichMarchFirst == [utc |-> <<2024, 3, 1>>, hour |-> 12, offset |-> 0]

Clocks == {HanoiMorning, HanoiNight, PacificNewYearsEve, GreenwichMarchFirst}

\* relative words, an ISO date (out of range), D/M[/Y] dates (one out of
\* range) and an amount
MaxCalFrags == 3

CalFragments ==
    { <<"y", "e", "s", "t", "e", "r", "d", "a", "y", " ">>, <<"t", "o", "d", "a", "y", " ">>, <<"h", "U+00F4", "m", " ", "q", "u", "a", " ">>, <<"2", "0", "2", "4", "-", "1", "3", "-", "4", "5", " ">>, <<"h", "U+00F4", "m", " ", "n", "a", "y", " ">>,
      <<"1", "5", "/", "0", "3">>, <<"/", "2", "5">>, <<"3", "1", "/", "0", "4", " ">>, <<" ", "4", "5">> }

\* before a call in English without preferred type, at one of the instants
\* of Clocks
InitCalendar ==
    /\ rawInput \in TextsOf(CalFragments, MaxCalFrags)
    /\ inputMode = "text"
    /\ language = "en"
    /\ fallbackCurrency = USD
    /\ preferredType = Undefined
    /\ clock \in Clocks
    /\ result = NoResult
    /\ lastIndex = [n \in 1..Len(categoryRules) |-> 0]
    /\ reparsed = NoResult
    /\ AppConstructed

\* the lastIndex of the patterns after a call on text raw that returned
\* outcome: a call that throws never reaches detectCategory
lastIndexAfterCall(raw, outcome) ==
    IF outcome.kind = "ok"
    THEN lastIndexAfter(toLowerCase(raw), findRule(1, toLowerCase(raw)))
    ELSE lastIndex

\* the call parseTransactionInput(rawInput, inputMode, language,
\* fallbackCurrency, preferredType) at the instant clock
ParseTransactionInput ==
    /\ result = NoResult
    /\ result' = parseTransactionInput(rawInput, inputMode, language,
                                       fallbackCurrency, preferredType, clock)
    /\ lastIndex' = lastIndexAfterCall(rawInput, result')
    /\ UNCHANGED <<rawInput, inputMode, language, fallbackCurrency, preferredType, clock,
                   reparsed>>
    /\ UNCHANGED appVars

\* a later call on the note of the record returned, with the same language,
\* fallback currency and preferred type
ParseNote ==
    /\ result.kind = "ok"
    /\ reparsed = NoResult
    /\ reparsed' = parseTransactionInput(result.note, inputMode, language,
                                         fallbackCurrency, preferredType, clock)
    /\ lastIndex' = lastIndexAfterCall(result.note, reparsed')
    /\ UNCHANGED <<rawInput, inputMode, language, fallbackCurrency, preferredType, clock,
                   result>>
    /\ UNCHANGED appVars

(***************************************************************************)
(* The application: derived values, effects and storage                    *)
(***************************************************************************)
\* String.prototype.trim
RECURSIVE trim(_)
trim(s) ==
    IF s = <<>> THEN s
    ELSE IF IsSpace(Head(s)) THEN trim(Tail(s))
    ELSE IF IsSpace(s[Len(s)]) THEN trim(SubSeq(s, 1, Len(s) - 1))
    ELSE s

\* gemini.js 271
selectedAccountId(st, ac) ==
    IF st.defaultAccountId # Undefined THEN st.defaultAccountId
    ELSE IF ac = <<>> THEN Undefined
    ELSE ac[1]

\* gemini.js 252: the entry date of a component constructed at instant now
entryDate(now) == isoSlice(utcDay(now))

\* gemini.js 178-180: an identifier that no earlier call returned, the
\* n-th one being n
createId(issued) == issued + 1

\* gemini.js 483-485 and 464-473: the parsed record with the entry date,
\* an identifier, the account and the mode of the flow
buildTx(parsed, mode, accountId, id, now) ==
    [id        |-> id,
     accountId |-> accountId,
     type      |-> parsed.type,
     amount    |-> parsed.amount,
     currency  |-> parsed.currency,
     category  |-> parsed.category,
     date      |-> entryDate(now),
     note      |-> parsed.note,
     inputMode |-> mode,
     rawInput  |-> parsed.rawInput]

\* llm.ts 418-428 (src/lib/image.ts 418-428): the record made of a reply of
\* the service that has the required fields and no others
normalizedRecord(raw, now, reply) ==
    [kind      |-> "ok",
     type      |-> reply.type,
     amount    |-> reply.amount,
     currency  |-> reply.currency,
     category  |-> IF reply.type = "income" THEN <<"O", "t", "h", "e", "r", " ", "I", "n", "c", "o", "m", "e">>
                   ELSE <<"O", "t", "h", "e", "r", " ", "E", "x", "p", "e", "n", "s", "e">>,
     merchant  |-> Undefined,
     date      |-> entryDate(now),
     note      |-> raw,
     inputMode |-> "text",
     rawInput  |-> raw]

\* gemini.js 286-323: the requests that the effects send, in the order of
\* the effects, after a render in which the user is u, given which of their
\* dependencies changed
requestsAfter(u, userChanged, txSet, acSet, stSet, tx, ac, st) ==
    IF u = NoUser THEN <<>>
    ELSE (IF userChanged THEN <<[op |-> "load", uid |-> u, payload |-> <<>>]>> ELSE <<>>)
         \o (IF userChanged \/ txSet
             THEN <<[op |-> "saveTransactions", uid |-> u, payload |-> tx]>> ELSE <<>>)
         \o (IF (userChanged \/ acSet) /\ ac # <<>>
             THEN <<[op |-> "saveAccounts", uid |-> u, payload |-> ac]>> ELSE <<>>)
         \o (IF userChanged \/ stSet
             THEN <<[op |-> "saveSettings", uid |-> u, payload |-> st]>> ELSE <<>>)

\* storage.ts 32: the items by createdAt, latest first (an identifier
\* issued later belongs to an item created later)
RECURSIVE sortLatestFirst(_)
sortLatestFirst(items) ==
    IF items = <<>> THEN <<>>
    ELSE LET latest == CHOOSE i \in 1..Len(items) : \A j \in 1..Len(items) : items[j].id <= items[i].id
         IN  <<items[latest]>> \o
             sortLatestFirst(SubSeq(items, 1, latest - 1) \o SubSeq(items, latest + 1, Len(items)))

\* storage.ts 27-36
loadTransactions(stored) ==
    IF ~stored.present THEN <<>> ELSE sortLatestFirst(stored.data)

\* storage.ts 42-52
loadAccounts(stored) ==
    IF ~stored.present THEN <<defaultAccount>>
    ELSE IF stored.data = <<>> THEN <<defaultAccount>>
    ELSE stored.data

\* storage.ts 58-66: JSON.stringify leaves an undefined defaultAccountId
\* out, so the default one shows through
loadSettings(stored) ==
    IF ~stored.present THEN defaultSettings
    ELSE IF stored.data.defaultAccountId = Undefined
    THEN [stored.data EXCEPT !.defaultAccountId = defaultSettings.defaultAccountId]
    ELSE stored.data

\* gemini.js 303
mergedSettings(st, ac) ==
    IF st.defaultAccountId # Undefined THEN st
    ELSE [st EXCEPT !.defaultAccountId = IF ac = <<>> THEN Undefined ELSE ac[1]]

(***************************************************************************)
(* The application: the entry handlers                                     *)
(***************************************************************************)
\* at most MaxTx identifiers are issued and MaxCalls requests sent to the
\* normalizer
MaxTx == 1

MaxCalls == 1

\* what the user types or the service returns: a space, words without an
\* amount, words with an amount
EntryTexts ==
    { <<" ">>, <<"c", "a", "f", "e">>, <<"c", "a", "f", "e", " ", "4", " ">> }

EntryTypes == {"income", "expense"}

\* the replies of the normalizer that have the required fields
Replies == {[type |-> "expense", amount |-> Decimal(<<7>>, 0), currency |-> USD]}

\* gemini.js 1182-1186 and 1279: the main screen is shown and the loading
\* modal does not cover it
MainScreen ==
    /\ user # NoUser
    /\ settings.onboardingCompleted
    /\ ~loading

hasLLMConfig == llmConfig

\* the number of identifiers issued so far
issued == Len(history.owner)

\* the call parseTransactionInput(raw, mode, language,
\* settings.defaultCurrency, type) of a handler
LocalCall(raw, mode, type) ==
    /\ rawInput' = raw
    /\ inputMode' = mode
    /\ language' = settings.language
    /\ fallbackCurrency' = settings.defaultCurrency
    /\ preferredType' = type
    /\ result' = parseTransactionInput(raw, mode, settings.language,
                                       settings.defaultCurrency, type, clock)
    /\ lastIndex' = lastIndexAfterCall(raw, result')
    /\ UNCHANGED <<clock, reparsed>>

\* gemini.js 458-481: pushTx(buildTx(parsed, mode)) for the account selected
\* when the handler started, and the save effect of the next render
PushTx(parsed, mode, accountId) ==
    IF accountId = Undefined
    THEN /\ alert' = "accountRequired"
         /\ UNCHANGED <<transactions, pending, history>>
    ELSE /\ transactions' = <<buildTx(parsed, mode, accountId, createId(issued), clock)>> \o transactions
         /\ alert' = "saved"
         /\ history' = [history EXCEPT !.owner = Append(@, user)]
         /\ pending' = pending \o requestsAfter(user, FALSE, TRUE, FALSE, FALSE,
                                                  transactions', accounts, settings)

\* the inner catch of gemini.js 511-517, 552-556 and 579-583 with the test
\* of the outcome left out
escalates_Always(local) == TRUE

\* the inner catch of gemini.js 511-517, 552-556 and 579-583: the handler
\* turns to the normalizer when the local call threw
escalates(local) == local.kind = "error"

\* gemini.js 510-519, 551-558 and 578-585: the local call on raw, then
\* either the save or the request to the normalizer, which suspends handler
\* name
LocalFirst(name, raw, mode, type, accountId) ==
    /\ LocalCall(raw, mode, type)
    /\ IF escalates(result')
       THEN /\ Len(normalizerCalls) < MaxCalls
            /\ normalizerCalls' = Append(normalizerCalls,
                                          [raw |-> raw, language |-> settings.language,
                                           fallbackCurrency |-> settings.defaultCurrency,
                                           preferredType |-> type])
            /\ loading' = TRUE
            /\ flow' = [name |-> name, pc |-> "normalize", raw |-> raw, mode |-> mode,
                        type |-> type, accountId |-> accountId]
            /\ UNCHANGED <<transactions, alert, pending, history>>
       ELSE /\ PushTx(result', mode, accountId)
            /\ loading' = FALSE
            /\ flow' = NoFlow
            /\ UNCHANGED normalizerCalls

\* gemini.js 487-499
OnManualSave ==
    /\ MainScreen
    /\ issued < MaxTx
    /\ \E manualRaw \in EntryTexts, manualType \in EntryTypes :
          IF trim(manualRaw) = <<>>
          THEN UNCHANGED vars
          ELSE /\ LocalCall(trim(manualRaw), "manual", manualType)
               /\ IF result'.kind = "ok"
                  THEN PushTx(result', "manual", selectedAccountId(settings, accounts))
                  ELSE /\ alert' = "invalidInput"
                       /\ UNCHANGED <<transactions, pending, history>>
               /\ UNCHANGED <<user, accounts, settings, loading, recording, flow,
                              normalizerCalls, store, llmConfig, call>>

\* gemini.js 501-526, up to the request to the normalizer
OnAiTextSave ==
    /\ MainScreen
    /\ issued < MaxTx
    /\ \E aiRaw \in EntryTexts, aiType \in EntryTypes :
          IF ~hasLLMConfig
          THEN /\ alert' = "aiKeyMissing"
               /\ UNCHANGED <<parserVars, user, transactions, accounts, settings, loading,
                              recording, flow, normalizerCalls, store, pending, llmConfig, call,
                              history>>
          ELSE IF trim(aiRaw) = <<>>
          THEN UNCHANGED vars
          ELSE /\ LocalFirst("onAiTextSave", trim(aiRaw), "text", aiType,
                             selectedAccountId(settings, accounts))
               /\ UNCHANGED <<user, accounts, settings, recording, store, llmConfig, call>>

\* at most MaxRecordings calls of startRecording are made
MaxRecordings == 2

\* gemini.js 536 without the test
alreadyRecording_Ignored(held) == FALSE

\* gemini.js 536: if (recording) return
alreadyRecording(held) == held

\* gemini.js 528-542, with the call of startRecording (voice.ts 3-14), which
\* returns a recording or throws
OnStartVoiceRecording ==
    /\ MainScreen
    /\ IF ~hasLLMConfig
       THEN /\ alert' = "aiKeyMissing"
            /\ UNCHANGED <<recording, history>>
       ELSE IF alreadyRecording(recording)
       THEN UNCHANGED <<alert, recording, history>>
       ELSE /\ history.recordings < MaxRecordings
            /\ history' = [history EXCEPT !.recordings = @ + 1]
            /\ \E started \in BOOLEAN :
                  /\ recording' = started
                  /\ alert' = IF started THEN alert ELSE "Voice error"
    /\ UNCHANGED <<parserVars, user, transactions, accounts, settings, loading, flow,
                   normalizerCalls, store, pending, llmConfig, call>>

\* gemini.js 544-550, up to the request for the transcript
OnStopVoiceRecording ==
    /\ MainScreen
    /\ issued < MaxTx
    /\ recording
    /\ \E aiType \in EntryTypes :
          flow' = [name |-> "onStopVoiceRecording", pc |-> "transcribe", raw |-> <<>>,
                   mode |-> "voice", type |-> aiType,
                   accountId |-> selectedAccountId(settings, accounts)]
    /\ loading' = TRUE
    /\ recording' = FALSE
    /\ UNCHANGED <<parserVars, user, transactions, accounts, settings,
                   normalizerCalls, alert, store, pending, llmConfig, call, history>>

\* gemini.js 567-577, up to the request for the text of the receipt
OnImageAi ==
    /\ MainScreen
    /\ issued < MaxTx
    /\ IF ~hasLLMConfig
       THEN /\ alert' = "aiKeyMissing"
            /\ UNCHANGED <<loading, flow>>
       ELSE /\ flow' = [name |-> "onImageAi", pc |-> "extract", raw |-> <<>>,
                        mode |-> "image", type |-> "expense",
                        accountId |-> selectedAccountId(settings, accounts)]
            /\ loading' = TRUE
            /\ UNCHANGED alert
    /\ UNCHANGED <<parserVars, user, transactions, accounts, settings, recording,
                   normalizerCalls, store, pending, llmConfig, call, history>>

\* a handler gives up: the catch and finally of gemini.js 521-525, 559-564
\* and 586-590
GiveUp(message) ==
    /\ alert' = message
    /\ loading' = FALSE
    /\ flow' = NoFlow
    /\ UNCHANGED <<parserVars, transactions, normalizerCalls, pending, history>>

\* gemini.js 550-565: transcribeAudio throws or returns a transcript
TranscriptArrives ==
    /\ flow.name = "onStopVoiceRecording"
    /\ flow.pc = "transcribe"
    /\ \/ GiveUp("Voice error")
       \/ \E transcript \in EntryTexts :
             LocalFirst(flow.name, transcript, "voice", flow.type, flow.accountId)
    /\ UNCHANGED <<user, accounts, settings, recording, store, llmConfig, call>>

\* gemini.js 575-590: the picker is cancelled (the finally alone runs),
\* extractReceiptText throws, or it returns the text of the receipt
ReceiptTextArrives ==
    /\ flow.name = "onImageAi"
    /\ flow.pc = "extract"
    /\ \/ GiveUp(alert)
       \/ GiveUp("Image error")
       \/ \E extracted \in EntryTexts :
             LocalFirst(flow.name, extracted, "image", "expense", flow.accountId)
    /\ UNCHANGED <<user, accounts, settings, recording, store, llmConfig, call>>

\* the alert of the outer catch of the handler name
errorAlert(name) ==
    IF name = "onAiTextSave" THEN "AI parse error"
    ELSE IF name = "onStopVoiceRecording" THEN "Voice error"
    ELSE "Image error"

\* gemini.js 516-525, 555-564 and 582-590: normalizeTextToTransaction throws
\* or returns a record, which the handler saves
NormalizerResolves ==
    /\ flow.name # "idle"
    /\ flow.pc = "normalize"
    /\ \/ GiveUp(errorAlert(flow.name))
       \/ \E reply \in Replies :
             /\ PushTx(normalizedRecord(flow.raw, clock, reply), flow.mode, flow.accountId)
             /\ loading' = FALSE
             /\ flow' = NoFlow
             /\ UNCHANGED <<parserVars, normalizerCalls>>
    /\ UNCHANGED <<user, accounts, settings, recording, store, llmConfig, call>>

(***************************************************************************)
(* The application: sessions, settings and storage                         *)
(***************************************************************************)
\* at most MaxLogins sessions are opened
MaxLogins == 3

\* gemini.js 432-449 with the effects of 286-323: user u signs in or
\* registers on the authentication screen, loginLocal or registerLocal
\* returning with the row of u in the table of the profiles
\* (local-auth.ts 97 and 116-119)
SignInOrSignUp ==
    /\ user = NoUser
    /\ history.logins < MaxLogins
    /\ history' = [history EXCEPT !.logins = @ + 1]
    /\ \E u \in Users :
          /\ user' = u
          /\ store' = [store EXCEPT ![u].profile = TRUE]
          /\ pending' = pending \o requestsAfter(u, TRUE, FALSE, FALSE, FALSE,
                                                   transactions, accounts, settings)
    /\ UNCHANGED <<parserVars, transactions, accounts, settings, loading, recording, flow,
                   normalizerCalls, alert, llmConfig, call>>

\* gemini.js 451-456 with the effect of 286-292
SignOut ==
    /\ MainScreen
    /\ user' = NoUser
    /\ transactions' = <<>>
    /\ accounts' = <<>>
    /\ UNCHANGED <<parserVars, settings, loading, recording, flow, normalizerCalls, alert,
                   store, pending, llmConfig, call, history>>

\* setSettings(next) and the effect of gemini.js 320-323
SetSettings(next) ==
    /\ settings' = next
    /\ pending' = pending \o requestsAfter(user, FALSE, FALSE, FALSE, TRUE,
                                             transactions, accounts, next)
    /\ UNCHANGED <<parserVars, user, transactions, accounts, loading, recording, flow,
                   normalizerCalls, alert, store, llmConfig, call>>

\* at most MaxPending requests wait when a chip is pressed
MaxPending == 3

\* gemini.js 829-830: a language chip of the onboarding screen
ChooseLanguage ==
    /\ user # NoUser
    /\ ~settings.onboardingCompleted
    /\ Len(pending) < MaxPending
    /\ \E l \in Languages : SetSettings([settings EXCEPT !.language = l])
    /\ UNCHANGED history

\* gemini.js 845: the button of the onboarding screen
CompleteOnboarding ==
    /\ user # NoUser
    /\ ~settings.onboardingCompleted
    /\ SetSettings([settings EXCEPT !.onboardingCompleted = TRUE])
    /\ history' = [history EXCEPT !.onboarded = @ \cup {user}]

\* gemini.js 294-304: the loads of bootstrapForUser for request load come
\* back, whoever is signed in by now, and the effects of 310-323 follow
BootstrapResolves ==
    /\ pending # <<>>
    /\ \E load \in {Head(pending)} :
       /\ load.op = "load"
       /\ transactions' = loadTransactions(store[load.uid].transactions)
       /\ accounts' = loadAccounts(store[load.uid].accounts)
       /\ settings' = mergedSettings(loadSettings(store[load.uid].settings), accounts')
       /\ pending' = Tail(pending) \o
                     requestsAfter(user, FALSE, TRUE, TRUE, TRUE,
                                   transactions', accounts', settings')
       /\ UNCHANGED <<parserVars, user, loading, recording, flow, normalizerCalls, alert,
                      store, llmConfig, call, history>>

\* storage.ts 38-40, 54-56 and 68-70: the storage service, which takes the
\* requests in the order in which they were sent, carries out a save
StorageSaves ==
    /\ pending # <<>>
    /\ \E save \in {Head(pending)} :
       /\ save.op \in {"saveTransactions", "saveAccounts", "saveSettings"}
       /\ store' = [store EXCEPT ![save.uid] =
                       IF save.op = "saveTransactions"
                       THEN [@ EXCEPT !.transactions = Stored(save.payload)]
                       ELSE IF save.op = "saveAccounts"
                       THEN [@ EXCEPT !.accounts = Stored(save.payload)]
                       ELSE [@ EXCEPT !.settings = Stored(save.payload)]]
       /\ pending' = Tail(pending)
       /\ UNCHANGED <<parserVars, user, transactions, accounts, settings, loading,
                      recording, flow, normalizerCalls, alert, llmConfig, call, history>>

(***************************************************************************)
(* The application: the accounts                                           *)
(***************************************************************************)
\* at most MaxAccounts accounts are added
MaxAccounts == 1

\* gemini.js 178-180 and 724: the identifier of the n-th account added,
\* which no earlier call returned
accountId(n) == "acc-" \o ToString(n)

\* the identifiers of the accounts of a list
listed(ac) == {ac[i] : i \in 1..Len(ac)}

\* gemini.js 741: accounts.filter((a) => a.id !== id)
without(ac, id) == SelectSeq(ac, LAMBDA a : a # id)

\* gemini.js 731
withDefault(st, id) ==
    [st EXCEPT !.defaultAccountId = IF @ = Undefined THEN id ELSE @]

\* gemini.js 718-733 with the effects of 315-323, for a name that is not
\* blank
OnAddAccount ==
    /\ MainScreen
    /\ history.added < MaxAccounts
    /\ history' = [history EXCEPT !.added = @ + 1]
    /\ accounts' = <<accountId(history.added + 1)>> \o accounts
    /\ settings' = withDefault(settings, accountId(history.added + 1))
    /\ pending' = pending \o requestsAfter(user, FALSE, FALSE, TRUE, TRUE,
                                             transactions, accounts', settings')
    /\ UNCHANGED <<parserVars, user, transactions, loading, recording, flow,
                   normalizerCalls, alert, store, llmConfig, call>>

\* gemini.js 736
isLastAccount(ac) == Len(ac) <= 1

\* gemini.js 735-747 with the effects of 315-323, for an account of the
\* list
OnDeleteAccount ==
    /\ MainScreen
    /\ \E id \in listed(accounts) :
          IF isLastAccount(accounts)
          THEN /\ alert' = "cannotDelete"
               /\ UNCHANGED <<accounts, settings, pending>>
          ELSE /\ accounts' = without(accounts, id)
               /\ settings' = IF settings.defaultAccountId = id
                              THEN [settings EXCEPT !.defaultAccountId =
                                        IF accounts' = <<>> THEN Undefined ELSE accounts'[1]]
                              ELSE settings
               /\ pending' = pending \o
                             requestsAfter(user, FALSE, FALSE, TRUE,
                                           settings.defaultAccountId = id,
                                           transactions, accounts', settings')
               /\ UNCHANGED alert
    /\ UNCHANGED <<parserVars, user, transactions, loading, recording, flow,
                   normalizerCalls, store, llmConfig, call, history>>

(***************************************************************************)
(* The application: the delete of the user account                         *)
(***************************************************************************)
\* the passwords typed into the field of the danger zone; the first one is
\* the password of every user
Passwords == {"secret", "guess"}

\* local-auth.ts 161-165: signInWithPassword accepts the password of the
\* user
passwordAccepted(uid, password) == password = "secret"

\* at most MaxDeletes times the delete of the account is asked for
MaxDeletes == 2

\* gemini.js 692-706: with a password typed, the delete is confirmed and
\* clearUserData(user.id) is sent
OnDeleteUserAccount ==
    /\ MainScreen
    /\ history.deletes < MaxDeletes
    /\ history' = [history EXCEPT !.deletes = @ + 1]
    /\ \E deletePassword \in Passwords :
          pending' = pending \o <<[op |-> "clearUserData", uid |-> user,
                                   payload |-> deletePassword]>>
    /\ UNCHANGED <<parserVars, user, transactions, accounts, settings, loading, recording,
                   flow, normalizerCalls, alert, store, llmConfig, call>>

\* storage.ts 153-159 (and 72-78)
clearUserData(stored) ==
    [stored EXCEPT !.transactions = Absent, !.accounts = Absent, !.settings = Absent]

\* local-auth.ts 155-173: the rows that deleteLocalAccount leaves when it
\* is called with the rows stored: none when the profile exists and the
\* password is accepted, all of them when it throws
deleteLocalAccount(stored, uid, password) ==
    IF stored.profile /\ passwordAccepted(uid, password)
    THEN [clearUserData(stored) EXCEPT !.profile = FALSE]
    ELSE stored

\* gemini.js 706-712: clearUserData is carried out and deleteLocalAccount
\* runs; when it returns the user is set to null and the effect of 288-291
\* follows, when it throws the message is shown
DeleteUserAccountProceeds ==
    /\ pending # <<>>
    /\ \E clear \in {Head(pending)} :
       /\ clear.op = "clearUserData"
       /\ store' = [store EXCEPT ![clear.uid] =
                       deleteLocalAccount(clearUserData(@), clear.uid, clear.payload)]
       /\ pending' = Tail(pending)
       /\ IF store[clear.uid].profile /\ passwordAccepted(clear.uid, clear.payload)
          THEN /\ user' = NoUser
               /\ transactions' = <<>>
               /\ accounts' = <<>>
               /\ UNCHANGED alert
          ELSE /\ alert' = "deleteFailed"
               /\ UNCHANGED <<user, transactions, accounts>>
    /\ UNCHANGED <<parserVars, settings, loading, recording, flow, normalizerCalls,
                   llmConfig, call, history>>

\* storage.ts 119-123, 134-138 and 147-151: every save is a request of its
\* own to the database, which may carry out one sent later before the
\* requests sent earlier
SaveOvertakes ==
    /\ \E i \in 2..Len(pending) :
       /\ pending[i].op \in {"saveTransactions", "saveAccounts", "saveSettings"}
       /\ store' = [store EXCEPT ![pending[i].uid] =
                       IF pending[i].op = "saveTransactions"
                       THEN [@ EXCEPT !.transactions = Stored(pending[i].payload)]
                       ELSE IF pending[i].op = "saveAccounts"
                       THEN [@ EXCEPT !.accounts = Stored(pending[i].payload)]
                       ELSE [@ EXCEPT !.settings = Stored(pending[i].payload)]]
       /\ pending' = SubSeq(pending, 1, i - 1) \o SubSeq(pending, i + 1, Len(pending))
    /\ UNCHANGED <<parserVars, user, transactions, accounts, settings, loading,
                   recording, flow, normalizerCalls, alert, llmConfig, call, history>>

(***************************************************************************)
(* The sign-in library                                                     *)
(***************************************************************************)
\* everything but the latest call of a library function
besidesCall == <<parserVars, user, transactions, accounts, settings, loading, recording,
                 flow, normalizerCalls, alert, store, pending, llmConfig, history>>

\* what an upsert into the table of the profiles answers: the row, the
\* error of a username already taken, another error, or neither an error
\* nor a row
UpsertReplies == {"row", "duplicate", "denied", "empty"}

\* part_001 47: the attempts of ensureProfile
maxAttempts == 5

\* the answers that the upserts of one call would get, attempt by attempt
ReplySeqs == [1..maxAttempts -> UpsertReplies]

\* the usernames that the metadata of the authenticated user or the form
\* hold, blank included
Usernames == {"", "ann"}

\* part_001 44: username.trim() || 'user'
baseUsername(username) == IF username = "" THEN "user" ELSE username

\* part_001 48: the username of an attempt, with a random suffix after the
\* first one
safeUsername(attempt, username) ==
    IF attempt = 0 THEN baseUsername(username) ELSE baseUsername(username) \o "-#"

\* part_001 56 with every error taken for a duplicate
isDuplicate_Any(reply) == reply # "row"

\* part_001 56: the message of the error tells a duplicate key
isDuplicate(reply) == reply = "duplicate"

\* part_001 43-62 from attempt on: the row returned or the error thrown,
\* and the usernames of the upserts made
RECURSIVE ensureProfileFrom(_, _, _, _, _)
ensureProfileFrom(attempt, userId, username, replies, sent) ==
    IF attempt >= maxAttempts
    THEN [kind |-> "throws", message |-> "Could not create unique username profile",
          id |-> userId, username |-> "", upserts |-> sent]
    ELSE IF replies[attempt + 1] = "row"
    THEN [kind |-> "row", message |-> "",
          id |-> userId, username |-> safeUsername(attempt, username),
          upserts |-> Append(sent, safeUsername(attempt, username))]
    ELSE IF ~isDuplicate(replies[attempt + 1])
    THEN [kind |-> "throws",
          message |-> IF replies[attempt + 1] = "empty" THEN "Could not upsert profile"
                      ELSE replies[attempt + 1],
          id |-> userId, username |-> "",
          upserts |-> Append(sent, safeUsername(attempt, username))]
    ELSE ensureProfileFrom(attempt + 1, userId, username, replies,
                           Append(sent, safeUsername(attempt, username)))

\* part_001 43-62
ensureProfile(userId, username, replies) ==
    ensureProfileFrom(0, userId, username, replies, <<>>)

\* part_001 36-41
fallbackSessionUser(userId, preferred) ==
    [kind |-> "user", id |-> userId, message |-> "",
     username |-> IF preferred = "" THEN "user" ELSE preferred]

\* part_001 32-34
toSessionUser(profile) ==
    [kind |-> "user", id |-> profile.id, message |-> "", username |-> profile.username]

throws(message) == [kind |-> "throws", id |-> "", message |-> message, username |-> ""]

\* what getProfileById answers: the row, no row, or an error
ProfileReads == {"row", "null", "error"}

\* local-auth.ts 63-71, 116-120: as below, without the catch
profileOrFallback_Throwing(userId, username, read, ensured) ==
    IF read = "row" THEN toSessionUser([id |-> userId, username |-> "stored"])
    ELSE IF read = "null" /\ ensured.kind = "row" THEN toSessionUser(ensured)
    ELSE throws("profile")

\* part_001 84-93, 141-151: the profile is read and, when there is none,
\* created; any throw on the way gives the fallback user
profileOrFallback(userId, username, read, ensured) ==
    IF read = "row" THEN toSessionUser([id |-> userId, username |-> "stored"])
    ELSE IF read = "null" /\ ensured.kind = "row" THEN toSessionUser(ensured)
    ELSE fallbackSessionUser(userId, username)

\* part_001 72-94
getLocalSessionUser(session, userId, username, read, replies) ==
    IF session = "error" THEN throws("session")
    ELSE IF session = "none" THEN [kind |-> "null", id |-> "", message |-> "", username |-> ""]
    ELSE profileOrFallback(userId, username, read, ensureProfile(userId, username, replies))

\* part_001 101-125
registerLocal(email, password, username, signUp, userId, replies) ==
    IF email = "" \/ password = "" THEN throws("Email and password are required")
    ELSE IF signUp = "error" THEN throws("signUp")
    ELSE IF signUp = "noUser" THEN throws("Could not create user")
    ELSE profileOrFallback(userId, IF username = "" THEN email ELSE username, "null",
                           ensureProfile(userId, IF username = "" THEN email ELSE username,
                                         replies))

\* part_001 127-152
loginLocal(identifier, password, signIn, userId, username, read, replies) ==
    IF identifier = "" \/ password = ""
    THEN throws("Email/username and password are required")
    ELSE IF signIn = "error" THEN throws("signIn")
    ELSE IF signIn = "noUser" THEN throws("Invalid username or password")
    ELSE profileOrFallback(userId, username, read, ensureProfile(userId, username, replies))

\* what the authentication service answers to getSession, signUp and
\* signInWithPassword
SessionReplies == {"error", "none", "user"}

AuthReplies == {"error", "noUser", "user"}

\* the texts of a field of the form, after trim
Fields == {"", "ann"}

\* a call of ensureProfile, the first call of the library
EnsureProfile ==
    /\ call = NoCall
    /\ \E userId \in Users, username \in Usernames, replies \in ReplySeqs :
          call' = [fn |-> "ensureProfile", replies |-> replies, userId |-> userId,
                   username |-> username, authenticated |-> TRUE, credentials |-> TRUE,
                   read |-> "null",
                   out |-> ensureProfile(userId, username, replies)]
    /\ UNCHANGED besidesCall

\* a call of getLocalSessionUser, the first call of the library
GetLocalSessionUser ==
    /\ call = NoCall
    /\ \E session \in SessionReplies, userId \in Users, username \in Usernames,
          read \in ProfileReads, replies \in ReplySeqs :
          call' = [fn |-> "getLocalSessionUser", replies |-> replies, userId |-> userId,
                   username |-> username, authenticated |-> session = "user",
                   credentials |-> TRUE, read |-> read,
                   out |-> getLocalSessionUser(session, userId, username, read, replies)]
    /\ UNCHANGED besidesCall

\* a call of registerLocal, the first call of the library
RegisterLocal ==
    /\ call = NoCall
    /\ \E email \in Fields, password \in Fields, username \in Usernames,
          signUp \in AuthReplies, userId \in Users, replies \in ReplySeqs :
          call' = [fn |-> "registerLocal", replies |-> replies, userId |-> userId,
                   username |-> IF username = "" THEN email ELSE username,
                   authenticated |-> signUp = "user",
                   credentials |-> email # "" /\ password # "", read |-> "null",
                   out |-> registerLocal(email, password, username, signUp, userId, replies)]
    /\ UNCHANGED besidesCall

\* a call of loginLocal, the first call of the library
LoginLocal ==
    /\ call = NoCall
    /\ \E identifier \in Fields, password \in Fields, signIn \in AuthReplies,
          userId \in Users, username \in Usernames, read \in ProfileReads,
          replies \in ReplySeqs :
          call' = [fn |-> "loginLocal", replies |-> replies, userId |-> userId,
                   username |-> username, authenticated |-> signIn = "user",
                   credentials |-> identifier # "" /\ password # "", read |-> read,
                   out |-> loginLocal(identifier, password, signIn, userId, username,
                                      read, replies)]
    /\ UNCHANGED besidesCall

NextAuth ==
    \/ EnsureProfile
    \/ GetLocalSessionUser
    \/ RegisterLocal
    \/ LoginLocal

(***************************************************************************)
(* The proxy and the client of the language model                          *)
(***************************************************************************)
\* gemini.js 1-2
DEFAULT_PRIMARY_MODEL == "gemini-2.5-flash-lite"

DEFAULT_FALLBACK_MODELS == <<"gemini-3-flash", "gemini-2.5-flash">>

\* gemini.js 23, image.ts 198: the first occurrence of each model
RECURSIVE firstOccurrences(_, _)
firstOccurrences(chain, seen) ==
    IF chain = <<>> THEN <<>>
    ELSE IF Head(chain) \in seen THEN firstOccurrences(Tail(chain), seen)
    ELSE <<Head(chain)>> \o firstOccurrences(Tail(chain), seen \cup {Head(chain)})

\* gemini.js 16-24, for a primary model already trimmed ("" when the body
\* names none) and the strings of body.fallbackModels already trimmed
parseModelChain(body) ==
    firstOccurrences(<<IF body.model = "" THEN DEFAULT_PRIMARY_MODEL ELSE body.model>>
                     \o SelectSeq(body.fallbackModels, LAMBDA m : m # "")
                     \o DEFAULT_FALLBACK_MODELS, {})

\* image.ts 190-199, for the two settings of the environment ("" and <<>>
\* when they are not set)
getModelChain(env) ==
    firstOccurrences(<<IF env.model = "" THEN "gemini-2.5-flash" ELSE env.model>>
                     \o (IF env.fallbackModels = <<>> THEN <<"gemini-2.5-flash-lite">>
                         ELSE SelectSeq(env.fallbackModels, LAMBDA m : m # "")), {})

\* gemini.js 46 with every failure passed on to the next model
canFallback_Always(status) == TRUE

\* gemini.js 46, image.ts 319
canFallback(status) == status = 429 \/ status >= 500

\* gemini.js 45, image.ts 321
requestFailed(model, response) ==
    "Gemini request failed (model=" \o model \o ", status=" \o ToString(response.status)
    \o "): " \o response.text

\* gemini.js 29-55, image.ts 300-331: the loop from the models of rest on,
\* after the requests to the models of tried
RECURSIVE fallbackFrom(_, _, _, _)
fallbackFrom(rest, replies, tried, lastError) ==
    IF rest = <<>>
    THEN [kind |-> "throws", text |-> "", modelUsed |-> "", requests |-> tried,
          message |-> IF lastError = "" THEN "All Gemini models failed." ELSE lastError]
    ELSE IF replies[Head(rest)].status \notin 200..299
    THEN IF canFallback(replies[Head(rest)].status)
         THEN fallbackFrom(Tail(rest), replies, Append(tried, Head(rest)),
                           requestFailed(Head(rest), replies[Head(rest)]))
         ELSE [kind |-> "throws", text |-> "", modelUsed |-> "",
               requests |-> Append(tried, Head(rest)),
               message |-> requestFailed(Head(rest), replies[Head(rest)])]
    ELSE IF replies[Head(rest)].text = ""
    THEN [kind |-> "throws", text |-> "", modelUsed |-> "",
          requests |-> Append(tried, Head(rest)),
          message |-> "Gemini response did not contain text output."]
    ELSE [kind |-> "returns", text |-> replies[Head(rest)].text, modelUsed |-> Head(rest),
          requests |-> Append(tried, Head(rest)), message |-> ""]

\* gemini.js 26-56
callGeminiWithFallback(modelChain, replies) == fallbackFrom(modelChain, replies, <<>>, "")

\* image.ts 298-333
callGemini(env, replies) == fallbackFrom(getModelChain(env), replies, <<>>, "")

\* one response of the handler
response(status, text, modelUsed, error) ==
    [status |-> status, text |-> text, modelUsed |-> modelUsed, error |-> error]

\* gemini.js 84-90
answer(upstream) ==
    [responses |-> <<IF upstream.kind = "returns"
                     THEN response(200, upstream.text, upstream.modelUsed, "")
                     ELSE response(502, "", "", upstream.message)>>,
     requests |-> upstream.requests]

\* gemini.js 78 without the test of the length
validParts_AnyArray(parts) == parts.isArray

\* gemini.js 78
validParts(parts) == parts.isArray /\ parts.length # 0

\* gemini.js 58-91: the responses sent and the requests made upstream
handler(method, key, body, replies) ==
    IF method = "OPTIONS"
    THEN [responses |-> <<response(204, "", "", "")>>, requests |-> <<>>]
    ELSE IF method # "POST"
    THEN [responses |-> <<response(405, "", "", "Method not allowed")>>, requests |-> <<>>]
    ELSE IF ~key
    THEN [responses |-> <<response(500, "", "", "Missing GEMINI_API_KEY in server environment.")>>,
          requests |-> <<>>]
    ELSE IF ~validParts(body.parts)
    THEN [responses |-> <<response(400, "", "", "Invalid payload")>>, requests |-> <<>>]
    ELSE answer(callGeminiWithFallback(parseModelChain(body), replies))

\* the models that a body or the environment may name
ModelNames == {"gemini-2.5-flash-lite", "gemini-3-flash", "gemini-2.5-flash", "custom"}

\* what a model answers: a text, an answer without text, or a failure
Responses ==
    {[status |-> 200, text |-> "out"], [status |-> 200, text |-> ""],
     [status |-> 400, text |-> "bad"], [status |-> 429, text |-> "quota"],
     [status |-> 503, text |-> "down"]}

Methods == {"OPTIONS", "GET", "POST"}

\* body.parts: not an array (undefined, or a string of four characters),
\* an empty array, an array of one part
Parts ==
    {[isArray |-> FALSE, length |-> 0], [isArray |-> FALSE, length |-> 4],
     [isArray |-> TRUE, length |-> 0], [isArray |-> TRUE, length |-> 1]}

PrimaryModels == {"", "custom", "gemini-2.5-flash"}

FallbackLists == {<<>>, <<"custom">>, <<"gemini-3-flash", "", "custom">>, <<"custom", "custom">>}

\* a request to the proxy
Handler ==
    /\ call = NoCall
    /\ \E method \in Methods, key \in BOOLEAN, parts \in Parts, model \in PrimaryModels,
          fallbackModels \in FallbackLists, replies \in [ModelNames -> Responses] :
          call' = [fn |-> "handler", method |-> method, key |-> key, parts |-> parts,
                   replies |-> replies,
                   chain |-> parseModelChain([model |-> model,
                                              fallbackModels |-> fallbackModels]),
                   out |-> handler(method, key,
                                   [parts |-> parts, model |-> model,
                                    fallbackModels |-> fallbackModels], replies)]
    /\ UNCHANGED besidesCall

\* a call of callGemini by a client without proxy
CallGemini ==
    /\ call = NoCall
    /\ \E model \in PrimaryModels, fallbackModels \in FallbackLists,
          replies \in [ModelNames -> Responses] :
          call' = [fn |-> "callGemini", method |-> "POST", key |-> TRUE,
                   parts |-> [isArray |-> TRUE, length |-> 1], replies |-> replies,
                   chain |-> getModelChain([model |-> model,
                                            fallbackModels |-> fallbackModels]),
                   out |-> callGemini([model |-> model, fallbackModels |-> fallbackModels],
                                      replies)]
    /\ UNCHANGED besidesCall

NextProxy == Handler \/ CallGemini

\* a component just constructed on a device with nothing stored
InitApp ==
    /\ rawInput = <<>>
    /\ inputMode = "manual"
    /\ language = "vi"
    /\ fallbackCurrency = VND
    /\ preferredType = Undefined
    /\ clock = HanoiMorning
    /\ result = NoResult
    /\ lastIndex = [n \in 1..Len(categoryRules) |-> 0]
    /\ reparsed = NoResult
    /\ AppConstructed

\* the settings of a user who chose language l on the onboarding screen
onboardedSettings(l) ==
    [defaultSettings EXCEPT !.language = l, !.onboardingCompleted = TRUE]

\* user A has signed in on a new device, the loads have come back, A has
\* gone through the onboarding screen and every save is done
SignedIn ==
    /\ user = "A"
    /\ transactions = <<>>
    /\ accounts = <<defaultAccount>>
    /\ settings \in {onboardedSettings(l) : l \in Languages}
    /\ loading = FALSE
    /\ recording = FALSE
    /\ flow = NoFlow
    /\ normalizerCalls = <<>>
    /\ alert = NoAlert
    /\ store = [EmptyStore EXCEPT !["A"] = [transactions |-> Stored(<<>>),
                                            accounts |-> Stored(<<defaultAccount>>),
                                            settings |-> Stored(settings),
                                            profile |-> TRUE]]
    /\ pending = <<>>
    /\ call = NoCall
    /\ history = [owner |-> <<>>, onboarded |-> {"A"}, logins |-> 1, recordings |-> 0,
                  added |-> 0, deletes |-> 0]

\* user A signed in, with the language of the default settings, with or
\* without a key for the language model
InitEntry ==
    /\ rawInput = <<>>
    /\ inputMode = "manual"
    /\ language = "vi"
    /\ fallbackCurrency = VND
    /\ preferredType = Undefined
    /\ clock = HanoiMorning
    /\ result = NoResult
    /\ lastIndex = [n \in 1..Len(categoryRules) |-> 0]
    /\ reparsed = NoResult
    /\ SignedIn
    /\ settings.language = defaultSettings.language
    /\ llmConfig \in BOOLEAN

NextEntry ==
    \/ OnManualSave
    \/ OnAiTextSave
    \/ OnStartVoiceRecording
    \/ OnStopVoiceRecording
    \/ TranscriptArrives
    \/ OnImageAi
    \/ ReceiptTextArrives
    \/ NormalizerResolves
    \/ StorageSaves

\* user A signed in, with no key for the language model
InitAccounts ==
    /\ InitEntry
    /\ llmConfig = FALSE

NextAccounts ==
    \/ OnAddAccount
    \/ OnDeleteAccount
    \/ OnManualSave
    \/ SignOut
    \/ SignInOrSignUp
    \/ BootstrapResolves
    \/ StorageSaves

NextDelete ==
    \/ OnDeleteUserAccount
    \/ DeleteUserAccountProceeds
    \/ OnManualSave
    \/ OnAddAccount
    \/ StorageSaves
    \/ SignInOrSignUp
    \/ BootstrapResolves

NextLogin ==
    \/ OnManualSave
    \/ SignOut
    \/ SignInOrSignUp
    \/ BootstrapResolves
    \/ StorageSaves
    \/ SaveOvertakes

NextUsers ==
    \/ SignInOrSignUp
    \/ SignOut
    \/ ChooseLanguage
    \/ CompleteOnboarding
    \/ BootstrapResolves
    \/ StorageSaves
    \/ OnManualSave

Next == ParseTransactionInput

NextReparse == ParseTransactionInput \/ ParseNote

Spec == Init /\ [][Next]_vars

SpecUnits == InitUnits /\ [][Next]_vars

SpecNumbers == InitNumbers /\ [][Next]_vars

SpecDates == InitDates /\ [][Next]_vars

SpecCues == InitCues /\ [][Next]_vars

SpecTypes == InitTypes /\ [][Next]_vars

SpecCalendar == InitCalendar /\ [][Next]_vars

SpecReparse == InitCategories /\ [][NextReparse]_vars

SpecEntry == InitEntry /\ [][NextEntry]_vars

SpecUsers == InitApp /\ [][NextUsers]_vars

SpecAccounts == InitAccounts /\ [][NextAccounts]_vars

SpecDelete == InitAccounts /\ [][NextDelete]_vars

SpecLogin == InitAccounts /\ [][NextLogin]_vars

SpecAuth == InitApp /\ [][NextAuth]_vars

SpecProxy == InitApp /\ [][NextProxy]_vars

SpecWords == InitWords /\ [][Next]_vars

SpecCategories == InitCategories /\ [][Next]_vars

(***************************************************************************)
(* The claims                                                              *)
(***************************************************************************)
Called == result # NoResult

HasDigit(s) == \E i \in 1..Len(s) : IsDigit(s[i])

HasNonzeroDigit(s) == \E i \in 1..Len(s) : IsDigit(s[i]) /\ s[i] # "0"

HasCue(s) == ContainsAny(toLowerCase(s), cueWords)

\* the greatest of a set of numbers that is not empty
MaxOf(vs) == CHOOSE v \in vs : \A w \in vs : ~DecLess(v, w)

\* the amounts of the candidates of rawInput: of those that carry a marker
\* when there is one, of all of them otherwise
CandidatePool ==
    LET cs     == candidatesOf(rawInput)
        marked == {cs[i].amount : i \in {j \in 1..Len(cs) : cs[j].hasUnit}}
    IN  IF marked # {} THEN marked ELSE {cs[i].amount : i \in 1..Len(cs)}

\* C1: every call of parseTransactionInput either fails or returns a record
\* whose amount is strictly greater than zero.
C1_AmountPositive ==
    Called => \/ result.kind = "error"
              \/ result.kind = "ok" /\ DecLess(Zero, result.amount)

\* "0 4": the zero token is passed over and the record holds 4
C1_Witness ==
    /\ rawInput = <<"0", " ", "4">>
    /\ result.kind = "ok"
    /\ result.amount = Nat2Dec(4)

\* C2: a text without any digit makes the call fail with the no-valid-amount
\* message, in Vietnamese when language is "vi" and in English otherwise.
C2_NoDigitFails ==
    (Called /\ ~HasDigit(rawInput)) =>
        /\ result.kind = "error"
        /\ language = "vi" => result.message = "Khong tim thay so tien hop le."
        /\ language = "en" => result.message = "Could not find a valid amount."

C2_Witness ==
    /\ rawInput = <<"c", "a", "f", "e">>
    /\ language = "vi"
    /\ result.kind = "error"
    /\ result.message = "Khong tim thay so tien hop le."

\* C3 as stated: the call returns a record exactly when the text holds a
\* numeric token, and fails only when it holds none.
C3_FailsOnlyWithoutDigits ==
    Called => (result.kind = "ok" <=> HasDigit(rawInput))

\* C3 as amended: the call returns a record (with a positive amount) exactly
\* when the lowercased text, once its dates are scrubbed, holds a numeric
\* token whose value is not zero, that is a digit other than 0; it fails
\* with the no-valid-amount error otherwise, and in no other way.
C3_FailsIffNoNonzeroToken ==
    Called =>
        IF HasNonzeroDigit(scrub(toLowerCase(rawInput)))
        THEN result.kind = "ok" /\ DecLess(Zero, result.amount)
        ELSE result.kind = "error"

\* "day 4": the only digit belongs to a day phrase, and the call fails
C3_Witness ==
    /\ rawInput = <<"d", "a", "y", " ", "4">>
    /\ result.kind = "error"

\* C4: the amount selected is the greatest among the candidates that carry
\* a marker when there is one, and the greatest of all candidates otherwise
\* (the record holds it as it is, or times 1,000 when the correction of
\* parser.ts 103 applies).
C4_MarkerPreference ==
    result.kind = "ok" =>
        LET selected == MaxOf(CandidatePool)
        IN  \/ result.amount = selected
            \/ /\ result.amount = Times(selected, 1000)
               /\ result.currency = VND
               /\ HasCue(rawInput)

\* "4$250": the marked 4 is selected though the unmarked 250 is greater
C4_Witness ==
    /\ rawInput = <<"4", "$", "2", "5", "0">>
    /\ result.kind = "ok"
    /\ result.amount = Nat2Dec(4)
    /\ \E i \in 1..Len(candidatesOf(rawInput)) :
          /\ ~candidatesOf(rawInput)[i].hasUnit
          /\ DecLess(result.amount, candidatesOf(rawInput)[i].amount)


\* the multiplier C5 gives for a suffix (the empty suffix is no suffix)
ClaimedMultiplier(u) ==
    CASE u \in { <<"k">>, <<"x", "U+1ECB">> } -> 1000
      [] u \in { <<"t", "r">>, <<"c", "U+1EE7">>, <<"c", "u">>, <<"c", "h", "a", "i">>, <<"m">>, <<"m", "i", "l">> } -> 1000000
      [] u \in { <<"v", "n", "d">>, <<"U+0111">>, <<"u", "s", "d">>, <<"$">>, <<>> } -> 1

ClaimedSuffixes ==
    { <<"k">>, <<"x", "U+1ECB">>, <<"t", "r">>, <<"c", "U+1EE7">>, <<"c", "u">>, <<"c", "h", "a", "i">>, <<"m">>, <<"m", "i", "l">>,
      <<"v", "n", "d">>, <<"U+0111">>, <<"u", "s", "d">>, <<"$">>, <<>> }

\* the texts that end in a number, with that number
NumberedTexts ==
    { [text |-> <<"c", "a", "f", "e", " ", "4", "5">>, n |-> 45],
      [text |-> <<"l", "u", "n", "c", "h", " ", "8", " ">>, n |-> 8],
      [text |-> <<"l", "U+01B0", "U+01A1", "n", "g", " ", "2", "0">>, n |-> 20] }

\* whether the correction of parser.ts 103 applies to candidate value v
Corrects(v) ==
    result.currency = VND /\ DecLess(v, Nat2Dec(1000)) /\ HasCue(rawInput)

\* C5: for a text that ends in a number followed by a suffix, the record
\* holds the number times the suffix's multiplier: 1,000 for k and xi,
\* 1,000,000 for tr, cu (with and without its hook), chai, m and mil, 1 for
\* vnd, d-stroke, usd, $ and for no suffix (unless the correction of
\* parser.ts 103 applies to that product); and "cafe 45k" gives 45000 VND,
\* "lunch 8 usd" 8 USD, "luong 20tr" 20000000 VND.
C5_UnitMultiplier ==
    Called =>
        /\ \A p \in NumberedTexts : \A u \in ClaimedSuffixes :
              rawInput = p.text \o u =>
                  /\ result.kind = "ok"
                  /\ LET v == Times(Nat2Dec(p.n), ClaimedMultiplier(u))
                     IN  ~Corrects(v) => result.amount = v
        /\ rawInput = <<"c", "a", "f", "e", " ", "4", "5", "k">> =>
              result.amount = Nat2Dec(45000) /\ result.currency = VND
        /\ rawInput = <<"l", "u", "n", "c", "h", " ", "8", " ", "u", "s", "d">> =>
              result.amount = Nat2Dec(8) /\ result.currency = USD
        /\ rawInput = <<"l", "U+01B0", "U+01A1", "n", "g", " ", "2", "0", "t", "r">> =>
              result.amount = Nat2Dec(20000000) /\ result.currency = VND

\* "lunch 8 xi": the slang unit multiplies by 1,000
C5_Witness ==
    /\ rawInput = <<"l", "u", "n", "c", "h", " ", "8", " ", "x", "U+1ECB">>
    /\ result.kind = "ok"
    /\ result.amount = Nat2Dec(8000)

\* C6: the record holds the selected amount times 1,000 when the detected
\* currency is VND, the selected amount is below 1,000 and the lowercased
\* text holds one of the cue words, and the selected amount itself in every
\* other case.
C6_HeuristicCorrection ==
    result.kind = "ok" =>
        LET selected == MaxOf(CandidatePool)
        IN  result.amount = IF Corrects(selected) THEN Times(selected, 1000)
                            ELSE selected

\* "cafe 4" with the VND fallback gives 4000
C6_Witness ==
    /\ rawInput = <<"c", "a", "f", "e", " ", "4">>
    /\ fallbackCurrency = VND
    /\ result.kind = "ok"
    /\ result.amount = Nat2Dec(4000)

\* whether text t is 1 to 3 digits followed by one or more groups of a
\* separator and exactly three digits
IsGroupedText(t) ==
    \E n \in 1..3 : \E g \in 1..Len(t) :
        /\ Len(t) = n + 4 * g
        /\ \A i \in 1..n : IsDigit(t[i])
        /\ \A k \in 0..(g - 1) :
              /\ t[n + 4 * k + 1] \in {".", ","}
              /\ \A j \in 2..4 : IsDigit(t[n + 4 * k + j])

\* whether text t is digits, one separator and one or two digits
IsDecimalText(t) ==
    \E n \in 1..Len(t) : \E f \in 1..2 :
        /\ Len(t) = n + 1 + f
        /\ \A i \in 1..n : IsDigit(t[i])
        /\ t[n + 1] \in {".", ","}
        /\ \A i \in (n + 2)..Len(t) : IsDigit(t[i])

\* the digits of t, in order
DigitsOf(t) ==
    LET ds == SelectSeq(t, IsDigit) IN [i \in 1..Len(ds) |-> DigitVal(ds[i])]

\* the number of digits of t after its last separator
FractionLen(t) ==
    Len(t) - (CHOOSE i \in 1..Len(t) : t[i] \in {".", ","} /\ \A j \in (i + 1)..Len(t) : IsDigit(t[j]))

\* the call returns a record holding v, or fails when v is zero
Gives(v) == IF IsZero(v) THEN result.kind = "error"
            ELSE result.kind = "ok" /\ result.amount = v

dateSpan(text) ==
    LET isoAt   == {i \in 1..Len(text) : isoFits(text, i)}
        slashAt == {i \in 1..Len(text) :
                       \E n \in 1..Len(slashShapes) : slashFits(text, i, slashShapes[n])}
    IN  IF isoAt # {}
        THEN LET i == CHOOSE p \in isoAt : \A q \in isoAt : p <= q
             IN  i..(i + 9)
        ELSE IF slashAt # {}
        THEN LET i  == CHOOSE p \in slashAt : \A q \in slashAt : p <= q
                 ok == {n \in 1..Len(slashShapes) : slashFits(text, i, slashShapes[n])}
             IN  i..(i + slashLen(slashShapes[CHOOSE n \in ok : \A k \in ok : n <= k]) - 1)
        ELSE {}

\* C8: a text whose only digits belong to the substring the Date Normalizer
\* reads as a date yields no amount: the call fails with the no-valid-amount
\* error.
C8_DateDigitsNeverAmounts ==
    (/\ Called
     /\ dateSpan(rawInput) # {}
     /\ \A i \in 1..Len(rawInput) : IsDigit(rawInput[i]) => i \in dateSpan(rawInput))
    => result.kind = "error"

\* w in s, followed by the end of s or by a character that is no ASCII
\* letter, digit or underscore
TrailingToken(s, w) ==
    \E i \in 1..Len(s) : HasAt(s, i, w) /\ At(s, i + Len(w)) \notin WordChars

UsdCue(s) == \E w \in { <<"$">>, <<"u", "s", "d">>, <<"d", "o", "l", "l", "a", "r">> } : Contains(s, w)

VndCue(s) ==
    \/ \E w \in { <<"v", "n", "d">>, <<"U+0111">>, <<"t", "r", "i", "U+1EC7", "u">>, <<"n", "g", "h", "U+00EC", "n">>, <<"n", "g", "a", "n">> } : Contains(s, w)
    \/ TrailingToken(s, <<"k">>)
    \/ TrailingToken(s, <<"t", "r">>)

\* C9: the currency of a record is USD when the lowercased text holds "$",
\* "usd" or "dollar", whatever else it holds; otherwise VND when it holds
\* "vnd", the d-stroke, "trieu", "nghin" or "ngan" (as written in
\* Vietnamese), or a "k" or a "tr" that no ASCII letter, digit or underscore
\* follows; otherwise the fallback currency.  It is always USD or VND.
C9_CurrencyDetection ==
    result.kind = "ok" =>
        /\ result.currency \in {USD, VND}
        /\ result.currency =
              IF UsdCue(toLowerCase(rawInput)) THEN USD
              ELSE IF VndCue(toLowerCase(rawInput)) THEN VND
              ELSE fallbackCurrency

\* "4vndUSD" with the VND fallback: the USD cue wins over the VND cue
C9_Witness ==
    /\ rawInput = <<"4", "v", "n", "d", "U", "S", "D">>
    /\ fallbackCurrency = VND
    /\ result.kind = "ok"
    /\ result.currency = USD

\* C10: when the caller supplies a preferred type, the record's type is
\* that type, whatever keywords the text holds.
C10_TypeOverride ==
    (result.kind = "ok" /\ preferredType # Undefined) => result.type = preferredType

\* "cafe rent 4" holds expense keywords only and is income for the caller
C10_Witness ==
    /\ rawInput = <<"c", "a", "f", "e", " ", "r", "e", "n", "t", " ", "4">>
    /\ preferredType = "income"
    /\ result.kind = "ok"
    /\ result.type = "income"


\* whether the lowercase form of s holds one of the words ws as a substring
HoldsWord(s, ws) ==
    \E n \in 1..Len(ws) : \E i \in 1..Len(s) :
        /\ i + Len(ws[n]) - 1 <= Len(s)
        /\ toLowerCase(SubSeq(s, i, i + Len(ws[n]) - 1)) = ws[n]

\* C11: with no preferred type, the record's type is income when the
\* lowercased text holds an income keyword as a substring, whatever expense
\* keywords it also holds, and expense in every other case.
C11_TypeFromLexicons ==
    (result.kind = "ok" /\ preferredType = Undefined) =>
        result.type = IF HoldsWord(rawInput, incomeKeywords) THEN "income" ELSE "expense"

\* "cafe Thu 4" holds an expense keyword and, in capitals, an income keyword
C11_Witness ==
    /\ rawInput = <<"c", "a", "f", "e", " ", "T", "h", "u", " ", "4">>
    /\ preferredType = Undefined
    /\ HoldsWord(rawInput, expenseKeywords)
    /\ result.kind = "ok"
    /\ result.type = "income"


\* the labels of C12, in its order
ClaimedLabels ==
    << [en |-> "Food & Drink", vi |-> "An uong"],
       [en |-> "Housing", vi |-> "Nha o"],
       [en |-> "Transport", vi |-> "Di chuyen"],
       [en |-> "Salary", vi |-> "Thu nhap"],
       [en |-> "Bills & Utilities", vi |-> "Hoa don"],
       [en |-> "Shopping", vi |-> "Mua sam"],
       [en |-> "Health", vi |-> "Suc khoe"],
       [en |-> "Entertainment", vi |-> "Giai tri"],
       [en |-> "Education", vi |-> "Giao duc"] >>

\* the rules whose pattern matches text s
MatchingRules(s) == {n \in 1..Len(categoryRules) : HoldsWord(s, categoryRules[n].re)}

\* C12: the category of a record is the label of the first rule, in the
\* order Food & Drink, Housing, Transport, Salary, Bills & Utilities,
\* Shopping, Health, Entertainment, Education, whose pattern matches the
\* text, in Vietnamese when language is "vi" and in English otherwise; when
\* no rule matches it is Other Income (Thu khac) for an income and Other
\* Expense (Chi khac) for an expense.
C12_CategoryTieBreak ==
    result.kind = "ok" =>
        LET hits == MatchingRules(rawInput)
        IN  IF hits # {}
            THEN LET label == ClaimedLabels[CHOOSE n \in hits : \A k \in hits : n <= k]
                 IN  result.category = IF language = "vi" THEN label.vi ELSE label.en
            ELSE result.category =
                    IF result.type = "income"
                    THEN (IF language = "vi" THEN "Thu khac" ELSE "Other Income")
                    ELSE (IF language = "vi" THEN "Chi khac" ELSE "Other Expense")

\* "grab cafe 4": a Transport cue, then a Food cue; Food & Drink comes first
C12_Witness ==
    /\ rawInput = <<"g", "r", "a", "b", " ", "c", "a", "f", "e", " ", "4">>
    /\ language = "vi"
    /\ MatchingRules(rawInput) = {1, 3}
    /\ result.kind = "ok"
    /\ result.category = "An uong"


\* the labels C13 calls expense-only, and the labels of incomes
ExpenseOnlyLabels ==
    {"Food & Drink", "Housing", "Transport", "Bills & Utilities", "Shopping",
     "Health", "Entertainment", "Education", "Other Expense",
     "An uong", "Nha o", "Di chuyen", "Hoa don", "Mua sam",
     "Suc khoe", "Giai tri", "Giao duc", "Chi khac"}

IncomeOnlyLabels == {"Salary", "Other Income", "Thu nhap", "Thu khac"}

\* C13 as stated: a record of type income never carries an expense-only
\* label and a record of type expense never carries an income-only label.
C13_CategoryConsistentWithType ==
    result.kind = "ok" =>
        /\ result.type = "income" => result.category \notin ExpenseOnlyLabels
        /\ result.type = "expense" => result.category \notin IncomeOnlyLabels

\* C13 as amended: only the default labels follow the type.  Other Income
\* is the category of incomes only and Other Expense of expenses only, and
\* both only when no rule matches the text; every other category is the
\* label of a rule that matches the text, whatever the type.
C13_DefaultsFollowType ==
    result.kind = "ok" =>
        /\ result.category \in {"Other Income", "Thu khac"} =>
              result.type = "income" /\ MatchingRules(rawInput) = {}
        /\ result.category \in {"Other Expense", "Chi khac"} =>
              result.type = "expense" /\ MatchingRules(rawInput) = {}
        /\ result.category \notin {"Other Income", "Thu khac", "Other Expense", "Chi khac"} =>
              \E n \in MatchingRules(rawInput) :
                  result.category \in {ClaimedLabels[n].en, ClaimedLabels[n].vi}

\* "bonus cafe 4" is an income by its keyword and Food & Drink by the first
\* rule that matches it
C13_Witness ==
    /\ rawInput = <<"b", "o", "n", "u", "s", " ", "c", "a", "f", "e", " ", "4">>
    /\ preferredType = Undefined
    /\ result.kind = "ok"
    /\ result.type = "income"
    /\ result.category = "Food & Drink"


\* the number of days of month m of year y
DaysInMonth(y, m) ==
    IF m \in {4, 6, 9, 11} THEN 30
    ELSE IF m # 2 THEN 31
    ELSE IF y % 4 = 0 /\ (y % 100 # 0 \/ y % 400 = 0) THEN 29
    ELSE 28

\* whether text d is YYYY-MM-DD for a day that exists
IsCalendarDate(d) ==
    /\ Len(d) = 10
    /\ \A i \in {1, 2, 3, 4, 6, 7, 9, 10} : IsDigit(d[i])
    /\ d[5] = "-" /\ d[8] = "-"
    /\ LET y  == digitsToNat(SubSeq(d, 1, 4))
           m  == digitsToNat(SubSeq(d, 6, 7))
           dd == digitsToNat(SubSeq(d, 9, 10))
       IN  m \in 1..12 /\ dd \in 1..DaysInMonth(y, m)

\* C14: the date of every record is YYYY-MM-DD for a day that exists (month
\* 01 to 12, day valid for the month).
C14_DateIsCalendarDate ==
    result.kind = "ok" => IsCalendarDate(result.date)


\* the day number of the local date of the device at instant now, and of
\* the UTC date at that instant
LocalDay(now) == utcDay(now) + ((now.hour + now.offset) \div 24)

HasIsoDate(text) == \E i \in 1..Len(text) : isoFits(text, i)

HasSlashDate(text) ==
    \E i \in 1..Len(text) : \E n \in 1..Len(slashShapes) : slashFits(text, i, slashShapes[n])

\* the substring of text that dateSpan gives
DateText(text) ==
    LET span == dateSpan(text)
        lo   == CHOOSE p \in span : \A q \in span : p <= q
    IN  SubSeq(text, lo, lo + Cardinality(span) - 1)

\* the day, the month and the digits of the year (none when it is missing)
\* of a text D/M or D/M/Y
SlashFields(t) ==
    LET bars == {i \in 1..Len(t) : t[i] = "/"}
        b1   == CHOOSE i \in bars : \A j \in bars : i <= j
        b2   == IF Cardinality(bars) = 2 THEN CHOOSE i \in bars : i # b1 ELSE Len(t) + 1
    IN  [day   |-> digitsToNat(SubSeq(t, 1, b1 - 1)),
         month |-> digitsToNat(SubSeq(t, b1 + 1, b2 - 1)),
         year  |-> SubSeq(t, b2 + 1, Len(t))]

\* the year C16 gives for the digits ys of a year at instant now
ClaimedYear(ys, now) ==
    IF ys = <<>> THEN civilFromDays(LocalDay(now)).y
    ELSE IF Len(ys) = 2 THEN 2000 + digitsToNat(ys)
    ELSE digitsToNat(ys)

\* the day number of the D/M[/Y] date of text, counting months past
\* December into the next year and days past the end of the month into the
\* next month
SlashDay(text, now) ==
    LET f      == SlashFields(DateText(text))
        months == ClaimedYear(f.year, now) * 12 + f.month - 1
    IN  daysFromCivil(months \div 12, (months % 12) + 1, 1) + f.day - 1

\* the date of the record follows the order of C15, where D is the day
\* number of the current date: a D/M[/Y] date is used when the record's
\* date is that date or the day before it
DateFollowsOrder(D) ==
    IF HoldsWord(rawInput, yesterdayWords) THEN result.date = isoSlice(D - 1)
    ELSE IF HoldsWord(rawInput, todayWords) THEN result.date = isoSlice(D)
    ELSE IF HasIsoDate(rawInput) THEN result.date = DateText(rawInput)
    ELSE IF HasSlashDate(rawInput)
         THEN result.date \in {isoSlice(SlashDay(rawInput, clock)),
                               isoSlice(SlashDay(rawInput, clock) - 1)}
    ELSE result.date = isoSlice(D)

\* C15: with D the date the device's clock shows, a text that holds
\* yesterday (hom qua) gives D-1 whatever else it holds; otherwise one that
\* holds today (hom nay) gives D; otherwise an embedded YYYY-MM-DD is
\* returned as it is; otherwise an embedded D/M[/Y] is used; otherwise the
\* date is D.
C15_DateCheckOrder ==
    result.kind = "ok" => DateFollowsOrder(LocalDay(clock))

\* the same order with D the UTC date of the instant of the call
OrderAtUtcDate ==
    result.kind = "ok" => DateFollowsOrder(utcDay(clock))

\* "yesterday today  45" in Hanoi in the morning is the day before
OrderAtUtcDateWitness ==
    /\ rawInput = <<"y", "e", "s", "t", "e", "r", "d", "a", "y", " ", "t", "o", "d", "a", "y", " ", " ", "4", "5">>
    /\ clock = HanoiMorning
    /\ result.kind = "ok"
    /\ result.date = <<"2", "0", "2", "5", "-", "0", "3", "-", "1", "4">>


\* whether the D/M[/Y] date of text names a day that exists
SlashDateExists(text, now) ==
    LET f == SlashFields(DateText(text))
    IN  /\ f.month \in 1..12
        /\ f.day \in 1..DaysInMonth(ClaimedYear(f.year, now), f.month)

\* YYYY-MM-DD for the day, month and year of the D/M[/Y] date of text
SlashDateIso(text, now) ==
    LET f == SlashFields(DateText(text))
    IN  padDigits(ClaimedYear(f.year, now), 4) \o <<"-">> \o padDigits(f.month, 2)
            \o <<"-">> \o padDigits(f.day, 2)

\* C16: for a text without relative word and without ISO date that holds a
\* D/M[/Y] date, the record's date has exactly that day and month and the
\* year written, 20YY for a year of two digits and the current year when
\* none is written, on every device.
C16_SlashDateExact ==
    (/\ result.kind = "ok"
     /\ ~HoldsWord(rawInput, yesterdayWords) /\ ~HoldsWord(rawInput, todayWords)
     /\ ~HasIsoDate(rawInput)
     /\ HasSlashDate(rawInput)
     /\ SlashDateExists(rawInput, clock))
    => result.date = SlashDateIso(rawInput, clock)

\* the same on the devices whose zone is not ahead of UTC
SlashDateExactWestOfUtc ==
    clock.offset <= 0 => C16_SlashDateExact

\* "15/03/25 45" on the Pacific coast is 15 March 2025
SlashDateExactWitness ==
    /\ rawInput = <<"1", "5", "/", "0", "3", "/", "2", "5", " ", "4", "5">>
    /\ clock = PacificNewYearsEve
    /\ result.kind = "ok"
    /\ result.date = <<"2", "0", "2", "5", "-", "0", "3", "-", "1", "5">>


\* C17: in a record, note and rawInput are the text of the call, character
\* for character, merchant is absent and inputMode is the tag of the call.
C17_CallerDataUntouched ==
    result.kind = "ok" =>
        /\ result.note = rawInput
        /\ result.rawInput = rawInput
        /\ result.merchant = Undefined
        /\ result.inputMode = inputMode

\* " 4 " by voice: the spaces around the amount stay
C17_Witness ==
    /\ rawInput = <<" ", "4", " ">>
    /\ inputMode = "voice"
    /\ result.kind = "ok"
    /\ result.note = <<" ", "4", " ">>
    /\ result.inputMode = "voice"


\* C18: a later call on the note of a returned record, with the same
\* language, fallback currency and preferred type, returns a record with
\* the same amount, currency and category; and no call leaves a trace in the
\* rule table: the lastIndex of every pattern stays 0.
C18_ReparseIsIdempotent ==
    /\ \A n \in 1..Len(categoryRules) : lastIndex[n] = 0
    /\ reparsed # NoResult =>
          /\ reparsed.kind = "ok"
          /\ reparsed.amount = result.amount
          /\ reparsed.currency = result.currency
          /\ reparsed.category = result.category

\* "grab cafe 4" parsed twice is Food & Drink twice
C18_Witness ==
    /\ rawInput = <<"g", "r", "a", "b", " ", "c", "a", "f", "e", " ", "4">>
    /\ language = "en"
    /\ result.kind = "ok"
    /\ reparsed.kind = "ok"
    /\ reparsed.category = "Food & Drink"
    /\ reparsed.amount = Nat2Dec(4)



\* C19: a step that calls the remote normalizer is a step of the AI text,
\* voice or image flow in which the local call on the same text threw, and
\* a step in which the local call of the manual flow threw calls no
\* normalizer, saves and sends nothing and shows the validation message.
C19_LocalFirstEscalation ==
    [][ /\ normalizerCalls' # normalizerCalls =>
              /\ Len(normalizerCalls') = Len(normalizerCalls) + 1
              /\ result'.kind = "error"
              /\ rawInput' = normalizerCalls'[Len(normalizerCalls')].raw
              /\ inputMode' \in {"text", "voice", "image"}
        /\ ( /\ inputMode' = "manual"
             /\ result'.kind = "error"
             /\ <<rawInput, inputMode, result>>' # <<rawInput, inputMode, result>> ) =>
              /\ alert' = "invalidInput"
              /\ UNCHANGED <<normalizerCalls, transactions, pending, store, flow, loading>>
      ]_vars

\* a transcript without an amount: the local call threw and the handler
\* waits for the normalizer
C19_Witness ==
    /\ inputMode = "voice"
    /\ rawInput = <<"c", "a", "f", "e">>
    /\ result.kind = "error"
    /\ Len(normalizerCalls) = 1
    /\ normalizerCalls[1].raw = <<"c", "a", "f", "e">>
    /\ flow.name = "onStopVoiceRecording"
    /\ flow.pc = "normalize"
    /\ transactions = <<>>

\* a manual entry without an amount: the validation message and nothing
\* else
ManualEntryRejected ==
    /\ inputMode = "manual"
    /\ rawInput = <<"c", "a", "f", "e">>
    /\ result.kind = "error"
    /\ alert = "invalidInput"
    /\ normalizerCalls = <<>>
    /\ transactions = <<>>


\* the transactions stored under the id of u were entered while u was
\* signed in
OwnTransactions(u) ==
    store[u].transactions.present =>
        \A i \in 1..Len(store[u].transactions.data) :
            history.owner[store[u].transactions.data[i].id] = u

\* the settings stored under the id of u say that onboarding is completed
\* only if u pressed the button of the onboarding screen
OwnOnboarding(u) ==
    (store[u].settings.present /\ store[u].settings.data.onboardingCompleted) =>
        u \in history.onboarded

\* C20: what is stored under the id of a user was entered by or loaded for
\* that user: the transactions were entered while the user was signed in,
\* and the onboarding-completed flag is set only if that user went through
\* the onboarding screen.
C20_UserIsolatedData ==
    \A u \in Users : OwnTransactions(u) /\ OwnOnboarding(u)

\* the part of C20 about transactions
TransactionsIsolated == \A u \in Users : OwnTransactions(u)


\* the indices at which a run of digits starts
NumberStarts(s) == {i \in 1..Len(s) : IsDigit(s[i]) /\ ~IsDigit(At(s, i - 1))}

\* the run of digits at index i, as a number
NumberAt(s, i) == Nat2Dec(digitsToNat(SubSeq(s, i, i + DigitsRun(s, i) - 1)))

\* whether the run of digits at index i is followed, after optional white
\* space, by a unit or currency token that is not the beginning of a longer
\* word
CompleteMarkerAfter(s, i) ==
    \E k \in 1..Len(unitAlternatives) :
        /\ HasAt(s, i + DigitsRun(s, i) + SpaceRun(s, i + DigitsRun(s, i)), unitAlternatives[k])
        /\ ~IsWordChar(At(s, i + DigitsRun(s, i) + SpaceRun(s, i + DigitsRun(s, i))
                              + Len(unitAlternatives[k])))

\* the greatest of the runs of digits of s
GreatestNumber(s) ==
    NumberAt(s, CHOOSE i \in NumberStarts(s) :
                    \A j \in NumberStarts(s) : ~DecLess(NumberAt(s, i), NumberAt(s, j)))

\* C26: in a text of whole numbers none of which is followed by a complete
\* unit or currency token (and without a cue word), every candidate is
\* unmarked with multiplier 1, so the amount is the greatest number written.
C26_WordsAreNotUnits ==
    ( /\ result.kind = "ok"
      /\ \A i \in NumberStarts(rawInput) : ~CompleteMarkerAfter(toLowerCase(rawInput), i)
      /\ ~ContainsAny(toLowerCase(rawInput), cueWords) ) =>
        result.amount = GreatestNumber(rawInput)

\* where the statement does hold: a bare number beside a number with a
\* complete unit
CompleteUnitWins ==
    /\ rawInput = <<"7", " ", "9", " ", "k", " ">>
    /\ result.kind = "ok"
    /\ result.amount = Nat2Dec(9000)


\* whether text t is a grouped-thousands token with separator g followed by
\* the other separator and one or two digits
IsGroupedDecimalText(t) ==
    \E f \in 1..2 :
        /\ Len(t) > f + 1
        /\ IsGroupedText(SubSeq(t, 1, Len(t) - f - 1))
        /\ t[Len(t) - f] \in {".", ","}
        /\ \A i \in 1..(Len(t) - f - 1) : t[i] # t[Len(t) - f]
        /\ \A i \in (Len(t) - f + 1)..Len(t) : IsDigit(t[i])

\* C27: a text that is a grouped-thousands token followed by a decimal part
\* is read as the grouped integer plus the fraction (8,000.5 gives 8000.5).
C27_GroupedDecimalKept ==
    (Called /\ IsGroupedDecimalText(rawInput)) =>
        Gives(Decimal(DigitsOf(rawInput), 0 - FractionLen(rawInput)))


\* what the call returns for 8,000.5: the digits of the decimal part are
\* appended to those of the groups
GroupedDecimalRead ==
    /\ rawInput = <<"8", ",", "0", "0", "0", ".", "5">>
    /\ result.kind = "ok"
    /\ result.amount = Nat2Dec(80005)


BootstrapCompleted ==
    /\ user # NoUser
    /\ \A i \in 1..Len(pending) : pending[i].op # "load"

\* C28: once the bootstrap of the user signed in is completed, whatever
\* accounts are added and deleted, the account list is not empty and
\* settings.defaultAccountId names an account of the list; a step that
\* shortens the list leaves the transaction list unchanged and, when it
\* removes the default account, makes the first remaining account the
\* default; the delete of the last account changes nothing.
C28_AccountsKept ==
    [][ /\ BootstrapCompleted' =>
              /\ accounts' # <<>>
              /\ settings'.defaultAccountId \in listed(accounts')
        /\ (BootstrapCompleted /\ user' = user /\ Len(accounts') < Len(accounts)) =>
              /\ transactions' = transactions
              /\ settings.defaultAccountId \notin listed(accounts') =>
                    settings'.defaultAccountId = accounts'[1]
        /\ (BootstrapCompleted /\ alert' = "cannotDelete" /\ alert # "cannotDelete") =>
              UNCHANGED <<accounts, settings, transactions, pending, store>>
      ]_vars

\* the default account has been deleted and the account added before is the
\* default
DefaultAccountDeleted ==
    /\ BootstrapCompleted
    /\ accounts = <<accountId(1)>>
    /\ settings.defaultAccountId = accountId(1)


\* the step carries out the clearUserData request of a delete confirmed
\* with a password that is not accepted
WrongPasswordDelete ==
    /\ pending # <<>>
    /\ Head(pending).op = "clearUserData"
    /\ ~passwordAccepted(Head(pending).uid, Head(pending).payload)
    /\ pending' = Tail(pending)

\* C24: a delete of the user account confirmed with a wrong password leaves
\* what is stored for every user (transactions, accounts, settings and
\* profile) unchanged and the user signed in; a step removes stored
\* transactions, accounts or settings of a user only when it carries out a
\* delete whose password is accepted.
C24_DeleteNeedsPassword ==
    [][ /\ WrongPasswordDelete => (store' = store /\ user' = user)
        /\ \A u \in Users :
              ( \/ store[u].transactions.present /\ ~store'[u].transactions.present
                \/ store[u].accounts.present /\ ~store'[u].accounts.present
                \/ store[u].settings.present /\ ~store'[u].settings.present
                \/ store[u].profile /\ ~store'[u].profile ) =>
              /\ pending # <<>>
              /\ Head(pending).op = "clearUserData"
              /\ Head(pending).uid = u
              /\ passwordAccepted(u, Head(pending).payload)
      ]_vars

\* a delete with a wrong password has failed: the message is shown, the
\* user is signed in and has a profile, and none of the user's data is
\* stored any more
WrongPasswordWiped ==
    /\ alert = "deleteFailed"
    /\ user = "A"
    /\ store["A"].profile
    /\ ~store["A"].transactions.present
    /\ ~store["A"].settings.present
    /\ pending = <<>>


\* the identifiers of the transactions stored under a key
storedIds(stored) == {stored.data[i].id : i \in 1..Len(stored.data)}

\* C25: where the user only adds transactions, signs out and signs in, no
\* step takes a transaction out of what is stored for a user or changes
\* the settings stored for a user, however the loads and the saves sent at
\* login are interleaved.
C25_LoginKeepsStoredData ==
    [][ \A u \in Users :
          /\ store[u].transactions.present =>
                /\ store'[u].transactions.present
                /\ storedIds(store[u].transactions) \subseteq storedIds(store'[u].transactions)
          /\ store[u].settings.present => store'[u].settings = store[u].settings
      ]_vars

\* user A has signed in again, the loads have come back and every save is
\* done, and the transaction that A had saved is neither stored nor shown
StoredTransactionLost ==
    /\ history.owner = <<"A">>
    /\ user = "A"
    /\ pending = <<>>
    /\ accounts # <<>>
    /\ store["A"].transactions = Stored(<<>>)
    /\ transactions = <<>>


\* the attempt of the first upsert answered by a row after duplicates alone,
\* or 0 when there is none
firstRow(replies) ==
    IF \E i \in 1..maxAttempts :
          replies[i] = "row" /\ \A j \in 1..(i - 1) : replies[j] = "duplicate"
    THEN CHOOSE i \in 1..maxAttempts :
            replies[i] = "row" /\ \A j \in 1..(i - 1) : replies[j] = "duplicate"
    ELSE 0

\* C21: when the credentials are given and the authentication call has
\* returned a user, getLocalSessionUser, loginLocal and registerLocal return
\* a session user with the id of that user, whatever the read and the
\* upserts of the profile answer, with the fallback username when the
\* profile could be neither read nor created; they throw only when a
\* credential is missing or the authentication call has failed.
C21_SignInNotBlocked ==
    call.fn \in {"getLocalSessionUser", "loginLocal", "registerLocal"} =>
        /\ (call.credentials /\ call.authenticated) =>
              /\ call.out.kind = "user"
              /\ call.out.id = call.userId
              /\ (call.read = "error" \/ (call.read = "null" /\ firstRow(call.replies) = 0)) =>
                    call.out.username = (IF call.username = "" THEN "user" ELSE call.username)
        /\ call.out.kind = "throws" => (~call.credentials \/ ~call.authenticated)

\* loginLocal has returned the fallback user after a failed read of the
\* profile
C21_Witness ==
    /\ call.fn = "loginLocal"
    /\ call.credentials
    /\ call.authenticated
    /\ call.read = "error"
    /\ call.username = ""
    /\ call.out = [kind |-> "user", id |-> call.userId, message |-> "", username |-> "user"]

\* C29: ensureProfile makes between one and five upserts, the first with
\* the base username and the others with a suffixed one, each after the
\* first only when all the earlier ones were answered by a duplicate-key
\* error; it returns the row of the first upsert that succeeds, throws at
\* once the error of an upsert that fails otherwise, and throws 'Could not
\* create unique username profile' after five duplicates.
C29_EnsureProfileBounded ==
    call.fn = "ensureProfile" =>
        /\ Len(call.out.upserts) \in 1..5
        /\ call.out.upserts[1] = baseUsername(call.username)
        /\ \A i \in 2..Len(call.out.upserts) :
              /\ call.out.upserts[i] = baseUsername(call.username) \o "-#"
              /\ call.replies[i - 1] = "duplicate"
        /\ call.replies[Len(call.out.upserts)] = "row" =>
              /\ call.out.kind = "row"
              /\ call.out.id = call.userId
              /\ call.out.username = call.out.upserts[Len(call.out.upserts)]
        /\ call.replies[Len(call.out.upserts)] \in {"denied", "empty"} =>
              /\ call.out.kind = "throws"
              /\ call.out.message # "Could not create unique username profile"
        /\ call.replies[Len(call.out.upserts)] = "duplicate" =>
              /\ Len(call.out.upserts) = 5
              /\ call.out.kind = "throws"
              /\ call.out.message = "Could not create unique username profile"

\* five upserts have met a duplicate key and ensureProfile has given up
C29_Witness ==
    /\ call.fn = "ensureProfile"
    /\ Len(call.out.upserts) = 5
    /\ \A i \in 1..5 : call.replies[i] = "duplicate"
    /\ call.out.kind = "throws"
    /\ call.out.message = "Could not create unique username profile"


\* the latest call has sent requests to the models
UpstreamReached ==
    \/ call.fn = "callGemini"
    \/ /\ call.fn = "handler"
       /\ call.method = "POST"
       /\ call.key
       /\ call.parts.isArray
       /\ call.parts.length > 0

\* the text that the latest call has handed back, "" when it has raised an
\* error, and the error that it has raised, "" when it has handed back a
\* text
returnedText ==
    IF call.fn = "callGemini" THEN call.out.text ELSE call.out.responses[1].text

raisedError ==
    IF call.fn = "callGemini" THEN call.out.message ELSE call.out.responses[1].error

\* the answer of the model of the last request
lastReply == call.replies[call.out.requests[Len(call.out.requests)]]

\* the order of the fallback, where an OK answer without text counts as a
\* text returned when noText is "", and raises noText otherwise
FallbackOrder(noText) ==
    UpstreamReached =>
        /\ Len(call.out.requests) \in 1..Len(call.chain)
        /\ call.out.requests = SubSeq(call.chain, 1, Len(call.out.requests))
        /\ \A i, j \in 1..Len(call.out.requests) :
              i # j => call.out.requests[i] # call.out.requests[j]
        /\ \A i \in 2..Len(call.out.requests) :
              \/ call.replies[call.out.requests[i - 1]].status = 429
              \/ call.replies[call.out.requests[i - 1]].status >= 500
        /\ IF lastReply.status \in 200..299
           THEN IF lastReply.text = "" /\ noText # ""
                THEN returnedText = "" /\ raisedError = noText
                ELSE returnedText = lastReply.text /\ raisedError = ""
           ELSE /\ returnedText = ""
                /\ raisedError = requestFailed(call.out.requests[Len(call.out.requests)],
                                               lastReply)
                /\ (lastReply.status = 429 \/ lastReply.status >= 500) =>
                      Len(call.out.requests) = Len(call.chain)

\* C22 as stated: the models are tried in the order of the chain, each at
\* most once, the next one only after a 429 or a status of 500 or more; any
\* other failure is raised at once; the text of the first OK answer is
\* returned; when every model has answered 429 or 5xx the error of the last
\* one is raised.
C22_AsStated == FallbackOrder("")

\* C22, amended: as above, but an OK answer that holds no text raises
\* 'Gemini response did not contain text output.' and no further model is
\* tried.
C22_ModelFallbackOrder == FallbackOrder("Gemini response did not contain text output.")

\* two models have answered 429 and 503 and the third one has given the
\* text
C22_Witness ==
    /\ call.fn = "handler"
    /\ UpstreamReached
    /\ Len(call.out.requests) = 3
    /\ call.replies[call.out.requests[1]].status = 429
    /\ call.replies[call.out.requests[2]].status = 503
    /\ call.out.responses = <<response(200, "out", call.chain[3], "")>>

\* C23: the handler sends requests upstream only for a POST with the key
\* set and a non-empty array of parts; it answers 204 to OPTIONS, 405 to
\* another method that is not POST, 500 without the key, 400 for invalid
\* parts, 502 with the message when the upstream call fails and 200 with
\* the text and the model used when it succeeds; it sends one response.
C23_HandlerResponses ==
    call.fn = "handler" =>
        /\ Len(call.out.responses) = 1
        /\ call.out.requests # <<>> <=> UpstreamReached
        /\ call.out.responses[1].status =
              (IF call.method = "OPTIONS" THEN 204
               ELSE IF call.method # "POST" THEN 405
               ELSE IF ~call.key THEN 500
               ELSE IF ~(call.parts.isArray /\ call.parts.length > 0) THEN 400
               ELSE IF lastReply.status \in 200..299 /\ lastReply.text # "" THEN 200
               ELSE 502)
        /\ call.out.responses[1].status = 200 =>
              /\ call.out.responses[1].text = lastReply.text
              /\ call.out.responses[1].modelUsed = call.out.requests[Len(call.out.requests)]
        /\ call.out.responses[1].status = 502 => call.out.responses[1].error # ""

\* the upstream call has failed on a status that allows no fallback and
\* the handler has answered 502
C23_Witness ==
    /\ call.fn = "handler"
    /\ UpstreamReached
    /\ call.out.requests = <<call.chain[1]>>
    /\ call.replies[call.chain[1]].status = 400
    /\ call.out.responses =
          <<response(502, "", "", requestFailed(call.chain[1], call.replies[call.chain[1]]))>>

====
